---- MODULE Spec2Model ----
(***************************************************************************)
(* Resume / job-description keyword matcher (ai-resume-grader).            *)
(*                                                                         *)
(* Three application variants share the same pipeline:                     *)
(*   "app"    - app.py                                                     *)
(*   "simple" - app_simple.py                                              *)
(*   "backup" - app_simple_backup.py                                       *)
(* text extraction -> keyword normalisation -> scoring.                    *)
(*                                                                         *)
(* Texts and keywords are sequences of one-character strings, so that      *)
(* lower-casing, length tests and regular-expression scanning are computed *)
(* character by character as the Python code computes them.                *)
(*                                                                         *)
(* A Python float that is the result of round(x, n) is represented by the  *)
(* integer number of hundredths it denotes (33.33 -> 3333, 33.3 -> 3330,   *)
(* 100.0 -> 10000).                                                        *)
(***************************************************************************)
EXTENDS Integers, Sequences, FiniteSets, TLC

VARIABLES
  variant,          \* which application file is running
  resume_keywords,  \* scorer input: keywords of the resume
  jd_keywords,      \* scorer input: keywords of the job description
  match_result,     \* scorer output, NoResult before the scorer has run
  env,              \* what the installation provides (imports, model, download)
  text,             \* normaliser input: the text
  doc,              \* the tokens the NLP pipeline yields for text.lower()
  min_length,       \* normaliser input: minimum keyword length
  nlp,              \* the cached result of the model loader
  kw,               \* normaliser output, NoKeywords before it has run
  uploaded_file,    \* extractor input: the uploaded document
  extraction,       \* extractor output, NoExtraction before it has run
  upload_size,      \* uploaded_resume.size of the current upload, in bytes
  job_description,  \* the text in the job-description text area
  analyze_clicked,  \* the "Analyze Resume" button was pressed for this run
  session_state,    \* st.session_state, kept from one script run to the next
  display,          \* what the last script run has shown
  cache,            \* the st.cache_data entries of extract_keywords_cached
  returned          \* history: the values extract_keywords_cached returned

scoreVars == <<resume_keywords, jd_keywords, match_result>>

kwVars == <<env, text, doc, min_length, nlp, kw>>

extractVars == <<uploaded_file, extraction>>

runVars ==
  <<upload_size, job_description, analyze_clicked, session_state, display>>

cacheVars == <<cache, returned>>

vars == <<variant, scoreVars, kwVars, extractVars, runVars, cacheVars>>

Variants == {"app", "simple", "backup"}

NoResult == [computed |-> FALSE]

\* Python's None where a text is expected: no text is equal to it.
None == <<"None">>

NoDisplay == [ran |-> FALSE]

(***************************************************************************)
(* Bounds                                                                  *)
(***************************************************************************)
MaxKw == 4        \* number of distinct keywords the scorer inputs draw from
MaxList == 3      \* longest keyword list handed to calculate_match_score
MaxPieces == 4    \* a text is at most this many pieces of TextPieces
MaxDocLen == 2    \* longest token sequence of a document
MaxParts == 3     \* most pages of a PDF, paragraphs of a DOCX
MaxBytes == 3     \* longest plain-text file, in characters
MaxShown == 22    \* number of distinct keywords the displayed results draw from

\* The "Minimum Keyword Length" slider of app.py
MinKeywordLengthMin == 2
MinKeywordLengthMax == 6
MinKeywordLengthDefault == 3

KwPool == <<"python", "sql", "aws", "developer", "docker", "git">>

ScoreKeywords == {KwPool[i] : i \in 1..MaxKw}

ListKeywords == {KwPool[i] : i \in 1..(MaxKw - 1)}

KeywordLists == UNION {[1..n -> ListKeywords] : n \in 0..MaxList}

Range(s) == {s[i] : i \in DOMAIN s}

(***************************************************************************)
(* Python arithmetic                                                       *)
(***************************************************************************)
\* Nearest integer to num/den (num >= 0, den > 0), ties to the even integer:
\* the rounding rule of Python's round().
RoundHalfEven(num, den) ==
  LET q == num \div den
      r == num % den
  IN  IF 2 * r < den THEN q
      ELSE IF 2 * r > den THEN q + 1
      ELSE IF q % 2 = 0 THEN q ELSE q + 1

\* round(num/den, ndigits) for ndigits in {1, 2}, in hundredths.
PyRound(num, den, ndigits) ==
  IF ndigits = 2 THEN RoundHalfEven(num * 100, den)
  ELSE 10 * RoundHalfEven(num * 10, den)

(***************************************************************************)
(* Scorer                                                                  *)
(***************************************************************************)
\* A slip of Percent: the factor 100 is forgotten.
Percent_fraction(num, den, ndigits) ==
  IF den = 0
  THEN [raised |-> TRUE, value |-> 0]
  ELSE [raised |-> FALSE, value |-> PyRound(num, den, ndigits)]

\* The expression  round(num / den * 100, ndigits):  the division raises
\* ZeroDivisionError when den is 0, otherwise the value is the rounded
\* percentage, in hundredths.
Percent(num, den, ndigits) ==
  IF den = 0
  THEN [raised |-> TRUE, value |-> 0]
  ELSE [raised |-> FALSE, value |-> PyRound(num * 100, den, ndigits)]

NotEvaluated == [raised |-> FALSE, value |-> 0]

\* Variants of the scorer with one slip each, used to test that the
\* properties below depend on the scorer.
match_score_swapped_difference(rk, jk) ==
  LET matched_keywords == rk \cap jk
      missing_keywords == rk \ jk
      pct == IF jk # {}
             THEN Percent(Cardinality(matched_keywords), Cardinality(jk), 2)
             ELSE NotEvaluated
  IN  [computed |-> TRUE, matched |-> matched_keywords,
       missing |-> missing_keywords, raised |-> pct.raised,
       score |-> pct.value]

match_score_unguarded(rk, jk) ==
  LET matched_keywords == rk \cap jk
      missing_keywords == jk \ rk
      pct == Percent(Cardinality(matched_keywords), Cardinality(jk), 2)
  IN  [computed |-> TRUE, matched |-> matched_keywords,
       missing |-> missing_keywords, raised |-> pct.raised,
       score |-> pct.value]

match_score_resume_numerator(rk, jk) ==
  LET matched_keywords == rk \cap jk
      missing_keywords == jk \ rk
      pct == IF jk # {}
             THEN Percent(Cardinality(rk), Cardinality(jk), 2)
             ELSE NotEvaluated
  IN  [computed |-> TRUE, matched |-> matched_keywords,
       missing |-> missing_keywords, raised |-> pct.raised,
       score |-> pct.value]

\* A slip of the analysis block: the missing keywords are counted.
match_score_counts_missing(rk, jk) ==
  LET matched_keywords == rk \cap jk
      missing_keywords == jk \ rk
      pct == IF jk # {}
             THEN Percent(Cardinality(missing_keywords), Cardinality(jk), 2)
             ELSE NotEvaluated
  IN  [computed |-> TRUE,
       matched  |-> matched_keywords,
       missing  |-> missing_keywords,
       raised   |-> pct.raised,
       score    |-> pct.value]

\* app.py / app_simple.py: the analysis block.  Inputs are sets.
\*   matched_keywords = resume_keywords.intersection(jd_keywords)
\*   missing_keywords = jd_keywords - resume_keywords
\*   match_score = round(len(matched)/len(jd)*100, 2) if jd_keywords else 0.0
match_score(rk, jk) ==
  LET matched_keywords == rk \cap jk
      missing_keywords == jk \ rk
      pct == IF jk # {}
             THEN Percent(Cardinality(matched_keywords), Cardinality(jk), 2)
             ELSE NotEvaluated
  IN  [computed |-> TRUE,
       matched  |-> matched_keywords,
       missing  |-> missing_keywords,
       raised   |-> pct.raised,
       score    |-> pct.value]

\* A slip of calculate_match_score: the difference is not taken.
calculate_match_score_missing_all(rk, jk) ==
  IF Len(jk) = 0
  THEN [computed |-> TRUE, matched |-> {}, missing |-> {},
        raised |-> FALSE, score |-> 0]
  ELSE LET resume_set == Range(rk)
           jd_set == Range(jk)
           matched == resume_set \cap jd_set
           missing == jd_set
           pct == IF jd_set # {}
                  THEN Percent(Cardinality(matched), Cardinality(jd_set), 1)
                  ELSE NotEvaluated
       IN  [computed |-> TRUE, matched |-> matched, missing |-> missing,
            raised |-> pct.raised, score |-> pct.value]

\* app_simple_backup.py: calculate_match_score.  Inputs are lists.
calculate_match_score(rk, jk) ==
  IF Len(jk) = 0
  THEN [computed |-> TRUE, matched |-> {}, missing |-> {},
        raised |-> FALSE, score |-> 0]
  ELSE LET resume_set == Range(rk)
           jd_set == Range(jk)
           matched == resume_set \cap jd_set
           missing == jd_set \ resume_set
           pct == IF jd_set # {}
                  THEN Percent(Cardinality(matched), Cardinality(jd_set), 1)
                  ELSE NotEvaluated
       IN  [computed |-> TRUE,
            matched  |-> matched,
            missing  |-> missing,
            raised   |-> pct.raised,
            score    |-> pct.value]

(***************************************************************************)
(* Characters and texts                                                    *)
(***************************************************************************)
LowerLetters ==
  <<"a", "b", "c", "d", "e", "f", "g", "h", "i", "j", "k", "l", "m",
    "n", "o", "p", "q", "r", "s", "t", "u", "v", "w", "x", "y", "z">>

UpperLetters ==
  <<"A", "B", "C", "D", "E", "F", "G", "H", "I", "J", "K", "L", "M",
    "N", "O", "P", "Q", "R", "S", "T", "U", "V", "W", "X", "Y", "Z">>

Digits == {"0", "1", "2", "3", "4", "5", "6", "7", "8", "9"}

Letters == Range(LowerLetters) \cup Range(UpperLetters)

WordChars == Letters \cup Digits \cup {"_"}

\* [a-zA-Z]
IsLetter(c) == c \in Letters

\* \w on the modelled (ASCII) characters: letters, digits and underscore
IsWordChar(c) == c \in WordChars

\* str.lower() of one character, as a table
LowerTable ==
  [c \in Range(UpperLetters) |->
     LowerLetters[CHOOSE i \in 1..26 : UpperLetters[i] = c]]

\* str.lower(), one character
LowerChar(c) == IF c \in DOMAIN LowerTable THEN LowerTable[c] ELSE c

\* str.lower()
Lower(s) == [i \in 1..Len(s) |-> LowerChar(s[i])]

(***************************************************************************)
(* Regular-expression fallback                                             *)
(***************************************************************************)
\* A slip of WordBoundary: the pattern without its \b anchors.
WordBoundary_none(s, p) == TRUE

\* \b before position p of s (p in 1..Len(s)+1): exactly one of the
\* characters at p-1 and p is a word character.
WordBoundary(s, p) ==
  LET before == p > 1 /\ IsWordChar(s[p - 1])
      after  == p <= Len(s) /\ IsWordChar(s[p])
  IN  before # after

\* End of the match of \b[a-zA-Z]{minrep,}\b starting at position i, or 0
\* when the pattern does not match there.  The repetition is greedy and
\* backtracks to shorter runs until a word boundary follows.
MatchEnd(s, i, minrep) ==
  LET ends == {j \in i..Len(s) :
                 /\ \A k \in i..j : IsLetter(s[k])
                 /\ j - i + 1 >= minrep
                 /\ WordBoundary(s, j + 1)}
  IN  IF WordBoundary(s, i) /\ ends # {}
      THEN CHOOSE j \in ends : \A k \in ends : k <= j
      ELSE 0

\* re.findall(r'\b[a-zA-Z]{minrep,}\b', s): the non-overlapping matches,
\* scanning s from position i, leftmost first.
RECURSIVE findall(_, _, _)
findall(s, i, minrep) ==
  IF i > Len(s) THEN <<>>
  ELSE LET e == MatchEnd(s, i, minrep)
       IN  IF e = 0 THEN findall(s, i + 1, minrep)
           ELSE <<SubSeq(s, i, e)>> \o findall(s, e + 1, minrep)

\* app.py / app_simple.py: the stop-word list of the fallback branch
stopwords ==
  {<<"t", "h", "e">>, <<"a", "n", "d">>, <<"f", "o", "r">>,
   <<"a", "r", "e">>, <<"b", "u", "t">>, <<"n", "o", "t">>,
   <<"y", "o", "u">>, <<"a", "l", "l">>, <<"c", "a", "n">>,
   <<"h", "a", "d">>, <<"h", "e", "r">>, <<"w", "a", "s">>,
   <<"o", "n", "e">>, <<"o", "u", "r">>, <<"o", "u", "t">>,
   <<"d", "a", "y">>, <<"g", "e", "t">>, <<"h", "a", "s">>,
   <<"h", "i", "m">>, <<"h", "i", "s">>, <<"h", "o", "w">>,
   <<"m", "a", "n">>, <<"n", "e", "w">>, <<"n", "o", "w">>,
   <<"o", "l", "d">>, <<"s", "e", "e">>, <<"t", "w", "o">>,
   <<"w", "h", "o">>, <<"b", "o", "y">>, <<"d", "i", "d">>,
   <<"i", "t", "s">>, <<"l", "e", "t">>, <<"p", "u", "t">>,
   <<"s", "a", "y">>, <<"s", "h", "e">>, <<"t", "o", "o">>,
   <<"u", "s", "e">>}

\* app_simple_backup.py: the stop-word list of simple_text_processing
stop_words ==
  {<<"t", "h", "e">>, <<"a", "n", "d">>, <<"o", "r">>,
   <<"b", "u", "t">>, <<"i", "n">>, <<"o", "n">>, <<"a", "t">>,
   <<"t", "o">>, <<"f", "o", "r">>, <<"o", "f">>,
   <<"w", "i", "t", "h">>, <<"b", "y">>, <<"a">>, <<"a", "n">>,
   <<"i", "s">>, <<"a", "r", "e">>, <<"w", "a", "s">>,
   <<"w", "e", "r", "e">>, <<"b", "e">>, <<"b", "e", "e", "n">>,
   <<"b", "e", "i", "n", "g">>, <<"h", "a", "v", "e">>,
   <<"h", "a", "s">>, <<"h", "a", "d">>, <<"d", "o">>,
   <<"d", "o", "e", "s">>, <<"d", "i", "d">>, <<"w", "i", "l", "l">>,
   <<"w", "o", "u", "l", "d">>, <<"c", "o", "u", "l", "d">>,
   <<"s", "h", "o", "u", "l", "d">>, <<"m", "a", "y">>,
   <<"m", "i", "g", "h", "t">>, <<"m", "u", "s", "t">>,
   <<"c", "a", "n">>}

\* app.py / app_simple.py: extract_keywords_cached, branch nlp is None
\*   words = re.findall(r'\b[a-zA-Z]{3,}\b', text.lower())
\*   return set(word for word in words
\*              if len(word) >= min_length and word not in stopwords)
regex_fallback(t, m) ==
  LET words == findall(Lower(t), 1, 3)
  IN  {words[i] : i \in {j \in DOMAIN words :
                           Len(words[j]) >= m /\ words[j] \notin stopwords}}

\* app_simple_backup.py: simple_text_processing.  The returned list is
\* list(set(keywords)): its order is unspecified and it has no duplicates,
\* so it is modelled by the set.
simple_text_processing(t) ==
  IF Len(t) = 0 THEN {}
  ELSE LET words == findall(Lower(t), 1, 1)
       IN  {words[i] : i \in {j \in DOMAIN words :
                                Len(words[j]) > 2 /\ words[j] \notin stop_words}}

(***************************************************************************)
(* NLP pipeline (external collaborator)                                    *)
(***************************************************************************)
\* A token of the document nlp(text.lower()), with the attributes the
\* normalisers read.  The pipeline is a third-party library: the model
\* takes its output as an input.
Tok(t, l, alpha, stop, punct, num, space) ==
  [text |-> t, lemma_ |-> l, is_alpha |-> alpha, is_stop |-> stop,
   is_punct |-> punct, like_num |-> num, is_space |-> space]

\* Tokens as en_core_web_sm analyses them.  is_alpha is str.isalpha() of the
\* token text, so an alphabetic token is neither punctuation nor white
\* space; like_num also holds of number words ("million").
TokenPool ==
  {Tok(<<"p", "y", "t", "h", "o", "n">>, <<"p", "y", "t", "h", "o", "n">>, TRUE, FALSE, FALSE, FALSE, FALSE),
   Tok(<<"s", "k", "i", "l", "l", "s">>, <<"s", "k", "i", "l", "l">>, TRUE, FALSE, FALSE, FALSE, FALSE),
   Tok(<<"a", "d", "s">>, <<"a", "d">>, TRUE, FALSE, FALSE, FALSE, FALSE),
   Tok(<<"m", "a", "k", "e", "s">>, <<"m", "a", "k", "e">>, TRUE, FALSE, FALSE, FALSE, FALSE),
   Tok(<<"a", "i">>, <<"a", "i">>, TRUE, FALSE, FALSE, FALSE, FALSE),
   Tok(<<"m", "i", "l", "l", "i", "o", "n">>, <<"m", "i", "l", "l", "i", "o", "n">>, TRUE, FALSE, FALSE, TRUE, FALSE),
   Tok(<<"t", "h", "e">>, <<"t", "h", "e">>, TRUE, TRUE, FALSE, FALSE, FALSE),
   Tok(<<"1", "0">>, <<"1", "0">>, FALSE, FALSE, FALSE, TRUE, FALSE),
   Tok(<<",">>, <<",">>, FALSE, FALSE, TRUE, FALSE, FALSE),
   Tok(<<" ">>, <<" ">>, FALSE, FALSE, FALSE, FALSE, TRUE)}

\* What the installation provides.
\*   fitz_ok, spacy_ok, docx_ok : the import succeeds
\*   model_load  : outcome of the first spacy.load("en_core_web_sm")
\*   download_ok : "python -m spacy download en_core_web_sm" exits with 0
\*   reload_ok   : spacy.load after the download succeeds
\*   blank_lemma : lemma_ of a token of spacy.blank("en"), which has no
\*                 lemmatizer: the empty string or the token text,
\*                 depending on the library version
\*   nlp_call    : nlp(text.lower()) returns a document or raises
Envs ==
  [fitz_ok : BOOLEAN, spacy_ok : BOOLEAN, docx_ok : BOOLEAN,
   model_load : {"ok", "OSError", "error"},
   download_ok : BOOLEAN, reload_ok : BOOLEAN,
   blank_lemma : {"empty", "text"},
   nlp_call : {"ok", "raises"}]

EnvFull ==
  [fitz_ok |-> TRUE, spacy_ok |-> TRUE, docx_ok |-> TRUE,
   model_load |-> "ok", download_ok |-> TRUE, reload_ok |-> TRUE,
   blank_lemma |-> "empty", nlp_call |-> "ok"]

EnvNoSpacy == [EnvFull EXCEPT !.spacy_ok = FALSE]

\* The document the loaded pipeline n yields: the blank pipeline tokenises
\* alike but assigns no lemmas.
PipelineDoc(d, n, e) ==
  IF n = "blank"
  THEN [i \in 1..Len(d) |->
          [d[i] EXCEPT !.lemma_ = IF e.blank_lemma = "empty" THEN <<>>
                                  ELSE d[i].text]]
  ELSE d

(***************************************************************************)
(* Dependency and model loading                                            *)
(***************************************************************************)
\* A slip of load_dependencies: each import is tried on its own.
load_dependencies_each(e) ==
  [fitz |-> e.fitz_ok, spacy |-> e.spacy_ok, docx |-> e.docx_ok,
   messages |-> IF e.fitz_ok /\ e.spacy_ok /\ e.docx_ok THEN <<>>
                ELSE <<"error: Missing Required Package">>]

\* app.py / app_simple.py: load_dependencies.  The three imports share one
\* try block: one ImportError makes all three None.
load_dependencies(e) ==
  IF e.fitz_ok /\ e.spacy_ok /\ e.docx_ok
  THEN [fitz |-> TRUE, spacy |-> TRUE, docx |-> TRUE, messages |-> <<>>]
  ELSE [fitz |-> FALSE, spacy |-> FALSE, docx |-> FALSE,
        messages |-> <<"error: Missing Required Package">>]

\* app.py: load_spacy_model.  nlp is "None", "model" (en_core_web_sm) or
\* "blank" (spacy.blank("en")); trace lists the attempts in order.
load_spacy_model(e) ==
  LET deps == load_dependencies(e)
  IN  IF ~deps.spacy
      THEN [nlp |-> "None", trace |-> <<>>, messages |-> deps.messages]
      ELSE IF e.model_load = "ok"
      THEN [nlp |-> "model", trace |-> <<"load">>, messages |-> <<>>]
      ELSE IF e.model_load = "OSError"
      THEN IF e.download_ok /\ e.reload_ok
           THEN [nlp |-> "model", trace |-> <<"load", "download", "load">>,
                 messages |-> <<>>]
           ELSE [nlp |-> "blank",
                 trace |-> IF e.download_ok
                           THEN <<"load", "download", "load", "blank">>
                           ELSE <<"load", "download", "blank">>,
                 messages |-> <<"warning: Using basic English model">>]
      ELSE [nlp |-> "blank", trace |-> <<"load", "blank">>,
            messages |-> <<"error: Error loading spaCy model">>]

\* app_simple.py: load_spacy_model.
simple_load_spacy_model(e) ==
  LET deps == load_dependencies(e)
  IN  IF ~deps.spacy
      THEN [nlp |-> "None", trace |-> <<>>, messages |-> deps.messages]
      ELSE IF e.model_load = "ok"
      THEN [nlp |-> "model", trace |-> <<"load">>, messages |-> <<>>]
      ELSE IF e.model_load = "OSError"
      THEN [nlp |-> "None", trace |-> <<"load">>,
            messages |-> <<"error: spaCy model not found">>]
      ELSE [nlp |-> "None", trace |-> <<"load">>,
            messages |-> <<"error: Error loading spaCy model">>]

\* app_simple_backup.py: load_dependencies.  Only ImportError and OSError
\* are handled: any other exception of spacy.load propagates.
backup_load_dependencies(e) ==
  IF ~e.spacy_ok
  THEN [spacy_lib |-> FALSE, nlp |-> "None", has_model |-> FALSE,
        trace |-> <<>>, raised |-> FALSE]
  ELSE IF e.model_load = "ok"
  THEN [spacy_lib |-> TRUE, nlp |-> "model", has_model |-> TRUE,
        trace |-> <<"load">>, raised |-> FALSE]
  ELSE IF e.model_load = "OSError"
  THEN [spacy_lib |-> TRUE, nlp |-> "blank", has_model |-> FALSE,
        trace |-> <<"load", "blank">>, raised |-> FALSE]
  ELSE [spacy_lib |-> TRUE, nlp |-> "None", has_model |-> FALSE,
        trace |-> <<"load">>, raised |-> TRUE]

(***************************************************************************)
(* Keyword normaliser                                                      *)
(***************************************************************************)
NoKeywords == [done |-> FALSE]

KwResult(path, keywords, raised) ==
  [done |-> TRUE, path |-> path, keywords |-> keywords, raised |-> raised]

\* app.py / app_simple.py: the token filter of extract_keywords_cached
token_kept(tok, m) ==
  /\ ~tok.is_stop
  /\ ~tok.is_punct
  /\ ~tok.like_num
  /\ Len(tok.lemma_) >= m
  /\ tok.is_alpha
  /\ ~tok.is_space

\* app.py / app_simple.py: extract_keywords_cached(text, min_length), with
\* n the value load_spacy_model() returned and d the tokens of text.lower().
extract_keywords_cached(t, d, m, n, e) ==
  IF n = "None"
  THEN KwResult("regex", regex_fallback(t, m), FALSE)
  ELSE IF e.nlp_call = "raises"
  THEN KwResult("nlp", {}, TRUE)
  ELSE LET toks == PipelineDoc(d, n, e)
       IN  KwResult("nlp",
                    {Lower(toks[i].lemma_) :
                       i \in {j \in DOMAIN toks : token_kept(toks[j], m)}},
                    FALSE)

\* app_simple_backup.py: the token filter of extract_keywords
backup_token_kept(tok) ==
  /\ tok.is_alpha
  /\ Len(tok.text) > 2
  /\ ~tok.is_stop
  /\ ~tok.is_punct

\* app_simple_backup.py: extract_keywords(text).  An exception of the
\* pipeline falls back to simple_text_processing; the returned
\* list(set(keywords)) is modelled by the set.
extract_keywords(t, d, e) ==
  LET dep == backup_load_dependencies(e)
  IN  IF dep.raised
      THEN KwResult("none", {}, TRUE)
      ELSE IF dep.spacy_lib /\ dep.nlp # "None"
      THEN IF e.nlp_call = "raises"
           THEN KwResult("regex", simple_text_processing(t), FALSE)
           ELSE LET toks == PipelineDoc(d, dep.nlp, e)
                IN  KwResult("nlp",
                             {toks[i].lemma_ :
                                i \in {j \in DOMAIN toks :
                                         backup_token_kept(toks[j])}},
                             FALSE)
      ELSE KwResult("regex", simple_text_processing(t), FALSE)

(***************************************************************************)
(* Text extractor                                                          *)
(***************************************************************************)
PDF == "application/pdf"

DOCX == "application/vnd.openxmlformats-officedocument.wordprocessingml.document"

TXT == "text/plain"

\* Any other type the browser may declare for the upload.
OCTET_STREAM == "application/octet-stream"

NoExtraction == [done |-> FALSE]

NoFile == [type |-> "none"]

\* An uploaded PDF or DOCX: the texts of its pages or paragraphs, and where
\* the parser raises: fail_at = 0 while opening the stream, fail_at = k
\* while reading part k, fail_at = Len(parts) + 1 never.
\* A plain-text upload: data, its bytes as a sequence of characters and of
\* "BAD", a byte sequence that is not valid UTF-8.
PartTexts ==
  {<<>>, <<"S", "k", "i", "l", "l", "s", ":">>,
   <<"P", "y", "t", "h", "o", "n">>, <<"S", "Q", "L">>}

ByteUnits == {"a", " ", "BAD"}

ParsedFiles ==
  UNION {[type : {PDF, DOCX}, parts : [1..n -> PartTexts],
          fail_at : 0..(n + 1), data : {<<>>}] : n \in 0..MaxParts}

ByteFiles ==
  UNION {[type : {TXT, OCTET_STREAM}, parts : {<<>>}, fail_at : {1},
          data : [1..n -> ByteUnits]] : n \in 0..MaxBytes}

Files == ParsedFiles \cup ByteFiles

ExtractResult(t, messages, raised) ==
  [done |-> TRUE, text |-> t, messages |-> messages, raised |-> raised]

\* A slip of Accumulate: each part is put in front of the text.
RECURSIVE Accumulate_prepend(_, _, _)
Accumulate_prepend(parts, n, sep) ==
  IF n = 0 THEN <<>>
  ELSE parts[n] \o sep \o Accumulate_prepend(parts, n - 1, sep)

\* text after the loop  "for part in parts: text += part + sep"  has run
\* over the first n parts
RECURSIVE Accumulate(_, _, _)
Accumulate(parts, n, sep) ==
  IF n = 0 THEN <<>>
  ELSE Accumulate(parts, n - 1, sep) \o parts[n] \o sep

ParserFails(f) == f.fail_at <= Len(f.parts)

\* The value of the local variable text when the try block of
\* extract_text_from_pdf / extract_text_from_docx is left: the parts read
\* before the exception, all parts when nothing raised.
TextAtExit(f, sep) ==
  IF ParserFails(f)
  THEN Accumulate(f.parts, IF f.fail_at = 0 THEN 0 ELSE f.fail_at - 1, sep)
  ELSE Accumulate(f.parts, Len(f.parts), sep)

\* app.py / app_simple.py: extract_text_from_pdf
extract_text_from_pdf(f, e) ==
  LET deps == load_dependencies(e)
  IN  IF ~deps.fitz THEN ExtractResult(<<>>, deps.messages, FALSE)
      ELSE ExtractResult(TextAtExit(f, <<>>),
                         IF ParserFails(f)
                         THEN <<"error: Failed to read PDF">> ELSE <<>>,
                         FALSE)

\* app.py / app_simple.py: extract_text_from_docx
extract_text_from_docx(f, e) ==
  LET deps == load_dependencies(e)
  IN  IF ~deps.docx THEN ExtractResult(<<>>, deps.messages, FALSE)
      ELSE ExtractResult(TextAtExit(f, <<"\n">>),
                         IF ParserFails(f)
                         THEN <<"error: Failed to read DOCX">> ELSE <<>>,
                         FALSE)

\* bytes.decode("utf-8", errors="ignore"): undecodable bytes are dropped
DecodeIgnore(data) == SelectSeq(data, LAMBDA u : u # "BAD")

\* str(bytes, "utf-8"): strict decoding raises UnicodeDecodeError
DecodeStrictRaises(data) == \E i \in 1..Len(data) : data[i] = "BAD"

\* app.py: extract_text_from_txt
extract_text_from_txt(f, e) == ExtractResult(DecodeIgnore(f.data), <<>>, FALSE)

\* app.py: the type dispatch of the resume upload section
app_extract(f, e) ==
  IF f.type = PDF THEN extract_text_from_pdf(f, e)
  ELSE IF f.type = DOCX THEN extract_text_from_docx(f, e)
  ELSE extract_text_from_txt(f, e)

\* app_simple.py: the type dispatch of the resume upload section
simple_extract(f, e) ==
  IF f.type = PDF THEN extract_text_from_pdf(f, e)
  ELSE IF f.type = DOCX THEN extract_text_from_docx(f, e)
  ELSE ExtractResult(DecodeIgnore(f.data), <<>>, FALSE)

\* app_simple_backup.py: load_file_processors, each import on its own
load_file_processors(e) == [pdf |-> e.fitz_ok, docx |-> e.docx_ok]

\* app_simple_backup.py: extract_text_from_file.  One try block around the
\* whole function: any exception gives "" and an error message.
extract_text_from_file(f, e) ==
  LET processors == load_file_processors(e)
      failed == ExtractResult(<<>>, <<"error: Error reading file">>, FALSE)
  IN  IF f.type = PDF
      THEN IF processors.pdf
           THEN IF ParserFails(f) THEN failed
                ELSE ExtractResult(Accumulate(f.parts, Len(f.parts), <<>>),
                                   <<>>, FALSE)
           ELSE ExtractResult(<<>>,
                  <<"error: PDF processing not available. Please upload a TXT file.">>,
                  FALSE)
      ELSE IF f.type = DOCX
      THEN IF processors.docx
           THEN IF ParserFails(f) THEN failed
                ELSE ExtractResult(Accumulate(f.parts, Len(f.parts), <<"\n">>),
                                   <<>>, FALSE)
           ELSE ExtractResult(<<>>,
                  <<"error: DOCX processing not available. Please upload a TXT file.">>,
                  FALSE)
      ELSE IF f.type = TXT
      THEN IF DecodeStrictRaises(f.data) THEN failed
           ELSE ExtractResult(f.data, <<>>, FALSE)
      ELSE ExtractResult(<<>>,
             <<"error: Unsupported file type. Please upload PDF, DOCX, or TXT.">>,
             FALSE)

(***************************************************************************)
(* The pipeline applied to a text                                          *)
(***************************************************************************)
\* The part of the stop-word list of the pipeline's language data that the
\* modelled texts contain.
SpacyStopWords ==
  {<<"t", "h", "e">>, <<"c", "a", "n">>, <<"a", "l", "l">>, <<"g", "o">>,
   <<"m", "a", "k", "e">>, <<"f", "o", "r">>, <<"a">>,
   <<"w", "i", "t", "h">>, <<"a", "n", "d">>}

\* Lemmas that differ from the lower-cased word.
LemmaOf(w) ==
  IF w = <<"s", "k", "i", "l", "l", "s">> THEN <<"s", "k", "i", "l", "l">>
  ELSE IF w = <<"a", "d", "s">> THEN <<"a", "d">>
  ELSE IF w = <<"m", "a", "k", "e", "s">> THEN <<"m", "a", "k", "e">>
  ELSE IF w = <<"l", "o", "o", "k", "i", "n", "g">> THEN <<"l", "o", "o", "k">>
  ELSE w

IsSpace(c) == c \in {" ", "\n"}

\* The token of a run w of letters and digits.
WordToken(w) ==
  LET alpha == \A i \in 1..Len(w) : IsLetter(w[i])
  IN  Tok(w, LemmaOf(w), alpha, alpha /\ w \in SpacyStopWords, FALSE,
          (\A i \in 1..Len(w) : w[i] \in Digits)
            \/ w = <<"m", "i", "l", "l", "i", "o", "n">>,
          FALSE)

\* The token of a single character that is neither a letter nor a digit.
CharToken(c) == Tok(<<c>>, <<c>>, FALSE, FALSE, ~IsSpace(c), FALSE, IsSpace(c))

\* Last position of the run of letters and digits that starts at i.
RunEnd(s, i) ==
  CHOOSE j \in i..Len(s) :
    /\ \A k \in i..j : s[k] \in Letters \cup Digits
    /\ (j = Len(s) \/ s[j + 1] \notin Letters \cup Digits)

\* nlp(s) for a lower-cased text s, from position i on: one token for each
\* run of letters and digits and for each other character; a blank
\* separates tokens and is not a token itself.
RECURSIVE Tokenise(_, _)
Tokenise(s, i) ==
  IF i > Len(s) THEN <<>>
  ELSE IF s[i] = " " THEN Tokenise(s, i + 1)
  ELSE IF s[i] \in Letters \cup Digits
  THEN <<WordToken(SubSeq(s, i, RunEnd(s, i)))>>
         \o Tokenise(s, RunEnd(s, i) + 1)
  ELSE <<CharToken(s[i])>> \o Tokenise(s, i + 1)

\* app.py: extract_keywords_cached(t, m) with the pipeline load_spacy_model()
\* returns in the installation e
app_keywords(t, m, e) ==
  extract_keywords_cached(t, Tokenise(Lower(t), 1), m,
                          load_spacy_model(e).nlp, e)

\* app_simple.py: extract_keywords_cached(t, m)
simple_keywords(t, m, e) ==
  extract_keywords_cached(t, Tokenise(Lower(t), 1), m,
                          simple_load_spacy_model(e).nlp, e)

\* app_simple_backup.py: extract_keywords(t)
backup_keywords(t, e) == extract_keywords(t, Tokenise(Lower(t), 1), e)

(***************************************************************************)
(* One run of the script                                                   *)
(***************************************************************************)
\* The upload limit the scripts test: 10 * 1024 * 1024 bytes
SizeLimit == 10 * 1024 * 1024

\* app_simple_backup.py analyses only when len(job_description.strip()) > 50
MinJdChars == 50

\* str.strip()
Strip(t) ==
  LET solid == {i \in 1..Len(t) : ~IsSpace(t[i])}
  IN  IF solid = {} THEN <<>>
      ELSE SubSeq(t, CHOOSE i \in solid : \A j \in solid : i <= j,
                     CHOOSE i \in solid : \A j \in solid : j <= i)

\* Python's truth value of a session-state entry: None and "" are false
Truthy(x) == x # None /\ x # <<>>

\* app.py: get_text_hash.  MD5 is taken to be free of collisions on the
\* modelled texts: the digest is the text under a tag.
get_text_hash(x) == <<"md5">> \o x

\* str(file_bytes): the repr of the bytes object
BytesStr(data) == <<"b'">> \o data \o <<"'">>

\* app.py: file_hash of the resume upload section
file_hash(f) ==
  get_text_hash(IF f.type = TXT THEN DecodeIgnore(f.data)
                ELSE BytesStr(f.data))

\* list(set(keywords)): some order of the set
RECURSIVE SetToSeq(_)
SetToSeq(S) ==
  IF S = {} THEN <<>>
  ELSE LET x == CHOOSE y \in S : TRUE
       IN  <<x>> \o SetToSeq(S \ {x})

\* What a run has shown: the messages, whether an extractor was invoked on
\* the upload, the match result (NoResult when no score was displayed), the
\* two texts the analysis worked on, and whether the "Analyze Resume"
\* button was drawn.
Display(messages, extractor_called, result, resume_text, job_desc_text, button) ==
  [ran |-> TRUE, messages |-> messages,
   extractor_called |-> extractor_called, result |-> result,
   resume_text |-> resume_text, job_desc_text |-> job_desc_text,
   button |-> button]

TooLargeMessage == "error: File size too large! Please upload a file smaller than 10MB."

UploadBothMessage ==
  "info: Please upload both a resume and enter a job description to see the analysis."

\* The analysis block of app.py / app_simple.py for the keyword results rk
\* and jk: an exception of the normaliser ends the run.
analysis_result(rk, jk) ==
  IF rk.raised \/ jk.raised THEN NoResult
  ELSE match_score(rk.keywords, jk.keywords)

\* app.py: one run of the script with the upload f of size bytes, the text
\* jd in the text area, the session state ss, the slider at m.
\* A slip of the test below: every run processes the upload again.
file_changed_always(ss, f) == TRUE

\* app.py: "Only reprocess if file changed"
\*   if st.session_state.last_resume_hash != file_hash:
file_changed(ss, f) == ss.last_resume_hash # file_hash(f)

app_run(f, size, jd, ss, e, m) ==
  LET uploaded == f # NoFile
      reprocess == file_changed(ss, f)
      ex == app_extract(f, e)
      ss1 == IF uploaded /\ reprocess
             THEN [ss EXCEPT !.processed_resume = ex.text,
                             !.last_resume_hash = file_hash(f)]
             ELSE ss
      upload_messages ==
        IF ~uploaded THEN <<"info: Please upload your resume to get started">>
        ELSE IF reprocess
        THEN ex.messages \o <<"success: Resume processed successfully!">>
        ELSE <<"info: Resume already processed - using cached result.">>
      ss2 == IF jd # <<>> /\ ss1.last_jd_hash # get_text_hash(jd)
             THEN [ss1 EXCEPT !.processed_jd = jd,
                              !.last_jd_hash = get_text_hash(jd)]
             ELSE ss1
      resume_text == ss2.processed_resume
      job_desc_text == ss2.processed_jd
      result == analysis_result(app_keywords(resume_text, m, e),
                                app_keywords(job_desc_text, m, e))
  IN  IF uploaded /\ size > SizeLimit
      THEN [session |-> ss,
            display |-> Display(<<TooLargeMessage>>, FALSE, NoResult,
                                None, None, FALSE)]
      ELSE IF uploaded /\ jd # <<>> /\ Truthy(resume_text)
                /\ Truthy(job_desc_text)
      THEN IF Strip(resume_text) = <<>>
           THEN [session |-> ss2,
                 display |-> Display(
                   upload_messages
                     \o <<"error: Could not extract text from the resume.">>,
                   reprocess, NoResult, resume_text, job_desc_text, FALSE)]
           ELSE [session |-> ss2,
                 display |-> Display(upload_messages, reprocess, result,
                                     resume_text, job_desc_text, FALSE)]
      ELSE [session |-> ss2,
            display |-> Display(
              upload_messages \o
                (IF uploaded /\ jd = <<>>
                 THEN <<"info: Please enter a job description to start the analysis">>
                 ELSE IF jd # <<>> /\ ~uploaded
                 THEN <<"info: Please upload your resume to start the analysis">>
                 ELSE IF uploaded \/ jd # <<>> THEN <<UploadBothMessage>>
                 ELSE <<>>),
              uploaded /\ reprocess, NoResult, None, None, FALSE)]

\* app_simple.py: one run of the script.  An oversized upload is reported
\* and the script goes on; the analysis section tests the session state.
simple_run(f, size, jd, ss, e) ==
  LET uploaded == f # NoFile
      accepted == uploaded /\ size <= SizeLimit
      ex == simple_extract(f, e)
      ss1 == IF accepted THEN [ss EXCEPT !.processed_resume = ex.text]
             ELSE ss
      upload_messages ==
        IF ~uploaded THEN <<>>
        ELSE IF accepted THEN <<"success: File uploaded">> \o ex.messages
        ELSE <<TooLargeMessage>>
      ss2 == IF jd # <<>> THEN [ss1 EXCEPT !.processed_jd = jd] ELSE ss1
      resume_text == ss2.processed_resume
      job_desc_text == ss2.processed_jd
      result ==
        analysis_result(simple_keywords(resume_text, MinKeywordLengthDefault, e),
                        simple_keywords(job_desc_text, MinKeywordLengthDefault, e))
  IN  IF Truthy(resume_text) /\ Truthy(job_desc_text)
      THEN [session |-> ss2,
            display |-> Display(upload_messages, accepted,
                                IF Strip(resume_text) # <<>> THEN result
                                ELSE NoResult,
                                resume_text, job_desc_text, FALSE)]
      ELSE [session |-> ss2,
            display |-> Display(upload_messages, accepted, NoResult,
                                None, None, FALSE)]

\* app_simple_backup.py: one run of main().  clicked: this run was started
\* by the "Analyze Resume" button.  No size test, no session state.
backup_run(f, size, jd, clicked, ss, e) ==
  LET uploaded == f # NoFile
      ready == uploaded /\ jd # <<>> /\ Len(Strip(jd)) > MinJdChars
      ex == extract_text_from_file(f, e)
      rk == backup_keywords(ex.text, e)
      jk == backup_keywords(jd, e)
      result == IF rk.raised \/ jk.raised THEN NoResult
                ELSE calculate_match_score(SetToSeq(rk.keywords),
                                           SetToSeq(jk.keywords))
  IN  IF ready
      THEN IF clicked
           THEN [session |-> ss,
                 display |-> Display(ex.messages, TRUE,
                                     IF ex.text # <<>> THEN result
                                     ELSE NoResult,
                                     ex.text, jd, TRUE)]
           ELSE [session |-> ss,
                 display |-> Display(<<>>, FALSE, NoResult, None, None, TRUE)]
      ELSE [session |-> ss,
            display |-> Display(IF uploaded \/ jd # <<>>
                                THEN <<UploadBothMessage>> ELSE <<>>,
                                FALSE, NoResult, None, None, FALSE)]

\* The extractor is not part of the other specifications.
ExtractIdle ==
  /\ uploaded_file = NoFile
  /\ extraction = NoExtraction

\* No script run has taken place: the session state is as the script
\* initialises it and nothing is shown.
RunIdle ==
  /\ upload_size = 0
  /\ job_description = <<>>
  /\ analyze_clicked = FALSE
  /\ session_state = [processed_resume |-> None, processed_jd |-> None,
                      last_resume_hash |-> None, last_jd_hash |-> None]
  /\ display = NoDisplay

\* The keyword cache is empty and has not been called.
CacheIdle ==
  /\ cache = {}
  /\ returned = {}

\* The normaliser is not part of the scorer's specification.
KwIdle ==
  /\ env = EnvFull
  /\ text = <<>>
  /\ doc = <<>>
  /\ min_length = MinKeywordLengthDefault
  /\ nlp = "unloaded"
  /\ kw = NoKeywords

\* The scorer's inputs: any two keyword sets (app.py, app_simple.py) or any
\* two keyword lists, duplicates allowed (app_simple_backup.py).
InitScore ==
  /\ variant \in Variants
  /\ IF variant = "backup"
     THEN resume_keywords \in KeywordLists /\ jd_keywords \in KeywordLists
     ELSE resume_keywords \in SUBSET ScoreKeywords
          /\ jd_keywords \in SUBSET ScoreKeywords
  /\ match_result = NoResult
  /\ KwIdle
  /\ ExtractIdle
  /\ RunIdle
  /\ CacheIdle

AppScore ==
  /\ variant = "app"
  /\ ~match_result.computed
  /\ match_result' = match_score(resume_keywords, jd_keywords)
  /\ UNCHANGED <<variant, resume_keywords, jd_keywords, kwVars, extractVars,
                 runVars, cacheVars>>

SimpleScore ==
  /\ variant = "simple"
  /\ ~match_result.computed
  /\ match_result' = match_score(resume_keywords, jd_keywords)
  /\ UNCHANGED <<variant, resume_keywords, jd_keywords, kwVars, extractVars,
                 runVars, cacheVars>>

BackupScore ==
  /\ variant = "backup"
  /\ ~match_result.computed
  /\ match_result' = calculate_match_score(resume_keywords, jd_keywords)
  /\ UNCHANGED <<variant, resume_keywords, jd_keywords, kwVars, extractVars,
                 runVars, cacheVars>>

NextScore == AppScore \/ SimpleScore \/ BackupScore

SpecScore == InitScore /\ [][NextScore]_vars

(***************************************************************************)
(* Keyword normaliser: inputs and steps                                    *)
(***************************************************************************)
ScoreIdle ==
  /\ resume_keywords = {}
  /\ jd_keywords = {}
  /\ match_result = NoResult

\* Texts are built from a few pieces: two stop words ("can" is in both
\* stop-word lists, "all" only in that of app.py), words of 2, 3 and 4
\* letters, an upper-case word, a digit and a blank.
TextPieces ==
  {<<"c", "a", "n">>, <<"a", "l", "l">>, <<"S", "Q", "L">>, <<"j", "a", "v", "a">>, <<"g", "o">>, <<"3">>, <<" ">>}

RECURSIVE Flatten(_)
Flatten(ps) == IF ps = <<>> THEN <<>> ELSE Head(ps) \o Flatten(Tail(ps))

Texts == {Flatten(ps) : ps \in UNION {[1..n -> TextPieces] : n \in 0..MaxPieces}}

Docs == UNION {[1..n -> TokenPool] : n \in 0..MaxDocLen}

\* The token texts separated by blanks: a text the document d stands for.
RECURSIVE TextOf(_)
TextOf(d) ==
  IF d = <<>> THEN <<>>
  ELSE IF Len(d) = 1 THEN d[1].text
  ELSE d[1].text \o <<" ">> \o TextOf(Tail(d))

\* min_keyword_length is the slider's value in app.py; app_simple.py passes
\* the literal 3 and app_simple_backup.py tests len(word) > 2.
MinLengths(v) ==
  IF v = "app" THEN MinKeywordLengthMin..MinKeywordLengthMax
  ELSE {MinKeywordLengthDefault}

\* The degraded path: the NLP library is not importable.
InitRegex ==
  /\ variant \in Variants
  /\ env = EnvNoSpacy
  /\ text \in Texts
  /\ doc = <<>>
  /\ min_length \in MinLengths(variant)
  /\ nlp = "unloaded"
  /\ kw = NoKeywords
  /\ ScoreIdle
  /\ ExtractIdle
  /\ RunIdle
  /\ CacheIdle

\* The NLP path: everything is installed.
InitNlp ==
  /\ variant \in Variants
  /\ env = EnvFull
  /\ doc \in Docs
  /\ text = TextOf(doc)
  /\ min_length \in MinLengths(variant)
  /\ nlp = "unloaded"
  /\ kw = NoKeywords
  /\ ScoreIdle
  /\ ExtractIdle
  /\ RunIdle
  /\ CacheIdle

\* Any installation, a few documents.
InitLoad ==
  /\ variant \in Variants
  /\ env \in Envs
  /\ doc \in {d \in Docs : Len(d) <= 1}
  /\ text = TextOf(doc)
  /\ min_length = MinKeywordLengthDefault
  /\ nlp = "unloaded"
  /\ kw = NoKeywords
  /\ ScoreIdle
  /\ ExtractIdle
  /\ RunIdle
  /\ CacheIdle

\* app.py: extract_keywords_cached, load_spacy_model() included
AppExtractKeywords ==
  /\ variant = "app"
  /\ ~kw.done
  /\ LET ld == load_spacy_model(env)
     IN  /\ nlp' = ld.nlp
         /\ kw' = extract_keywords_cached(text, doc, min_length, ld.nlp, env)
                    @@ [trace |-> ld.trace, messages |-> ld.messages]
  /\ UNCHANGED <<variant, env, text, doc, min_length, scoreVars, extractVars,
                 runVars, cacheVars>>

\* app_simple.py: extract_keywords_cached, load_spacy_model() included
SimpleExtractKeywords ==
  /\ variant = "simple"
  /\ ~kw.done
  /\ LET ld == simple_load_spacy_model(env)
     IN  /\ nlp' = ld.nlp
         /\ kw' = extract_keywords_cached(text, doc, min_length, ld.nlp, env)
                    @@ [trace |-> ld.trace, messages |-> ld.messages]
  /\ UNCHANGED <<variant, env, text, doc, min_length, scoreVars, extractVars,
                 runVars, cacheVars>>

\* app_simple_backup.py: extract_keywords, load_dependencies() included
BackupExtractKeywords ==
  /\ variant = "backup"
  /\ ~kw.done
  /\ LET dep == backup_load_dependencies(env)
     IN  /\ nlp' = dep.nlp
         /\ kw' = extract_keywords(text, doc, env)
                    @@ [trace |-> dep.trace, messages |-> <<>>]
  /\ UNCHANGED <<variant, env, text, doc, min_length, scoreVars, extractVars,
                 runVars, cacheVars>>

NextKw == AppExtractKeywords \/ SimpleExtractKeywords \/ BackupExtractKeywords

SpecRegex == InitRegex /\ [][NextKw]_vars

SpecNlp == InitNlp /\ [][NextKw]_vars

SpecLoad == InitLoad /\ [][NextKw]_vars

(***************************************************************************)
(* Text extractor: inputs and steps                                        *)
(***************************************************************************)
\* Any upload, with any of the three libraries installed or missing.
InitExtract ==
  /\ variant \in Variants
  /\ env \in {e \in Envs :
                /\ e.model_load = "ok" /\ e.download_ok /\ e.reload_ok
                /\ e.blank_lemma = "empty" /\ e.nlp_call = "ok"}
  /\ uploaded_file \in Files
  /\ extraction = NoExtraction
  /\ text = <<>>
  /\ doc = <<>>
  /\ min_length = MinKeywordLengthDefault
  /\ nlp = "unloaded"
  /\ kw = NoKeywords
  /\ ScoreIdle
  /\ RunIdle
  /\ CacheIdle

AppExtractText ==
  /\ variant = "app"
  /\ ~extraction.done
  /\ extraction' = app_extract(uploaded_file, env)
  /\ UNCHANGED <<variant, uploaded_file, scoreVars, kwVars, runVars,
                 cacheVars>>

SimpleExtractText ==
  /\ variant = "simple"
  /\ ~extraction.done
  /\ extraction' = simple_extract(uploaded_file, env)
  /\ UNCHANGED <<variant, uploaded_file, scoreVars, kwVars, runVars,
                 cacheVars>>

BackupExtractText ==
  /\ variant = "backup"
  /\ ~extraction.done
  /\ extraction' = extract_text_from_file(uploaded_file, env)
  /\ UNCHANGED <<variant, uploaded_file, scoreVars, kwVars, runVars,
                 cacheVars>>

NextExtract == AppExtractText \/ SimpleExtractText \/ BackupExtractText

SpecExtract == InitExtract /\ [][NextExtract]_vars

(***************************************************************************)
(* Script runs: inputs and steps                                           *)
(***************************************************************************)
File(type, parts, fail_at, data) ==
  [type |-> type, parts |-> parts, fail_at |-> fail_at, data |-> data]

\* The bytes of a DOCX and of a PDF document: neither is valid UTF-8.
DocxBytes == <<"BAD", "a">>

PdfBytes == <<"BAD", " ">>

SkillsDocx ==
  <<<<"S", "k", "i", "l", "l", "s", ":">>, <<"P", "y", "t", "h", "o", "n">>,
    <<"S", "Q", "L">>>>

\* The uploads of the runs: a DOCX under its own type, the same bytes
\* declared as PDF (the PDF parser rejects them) and as an unknown type, a
\* PDF of two pages, two plain-text resumes, an empty file and a file that
\* holds one blank.
RunUploads ==
  {File(DOCX, SkillsDocx, 4, DocxBytes),
   File(PDF, <<>>, 0, DocxBytes),
   File(OCTET_STREAM, <<>>, 1, DocxBytes),
   File(PDF, <<<<"S", "Q", "L">>, <<"P", "y", "t", "h", "o", "n">>>>, 3, PdfBytes),
   File(TXT, <<>>, 1, <<"S", "Q", "L">>),
   File(TXT, <<>>, 1, <<"P", "y", "t", "h", "o", "n">>),
   File(TXT, <<>>, 1, <<>>),
   File(TXT, <<>>, 1, <<" ">>)}

\* uploaded_resume.size: at the limit and one byte above it
Sizes == {SizeLimit, SizeLimit + 1}

\* A job description longer than MinJdChars characters.
LongJobDescription ==
  Flatten([i \in 1..(MinJdChars \div 9 + 1) |->
             <<"s", "q", "l", " ", "j", "a", "v", "a", " ">>])

\* The texts of the job-description text area.
JobDescriptions ==
  {<<>>, <<"S", "Q", "L">>, <<"p", "y", "t", "h", "o", "n">>,
   LongJobDescription}

\* The language model is missing and cannot be downloaded.
EnvNoModel == [EnvFull EXCEPT !.model_load = "OSError", !.download_ok = FALSE]

\* One interaction changes one widget: the upload (a file is chosen or
\* removed) or the text area.  The values are <<file, size, text>>.
WidgetChanges ==
  {<<f, size, job_description>> : f \in RunUploads, size \in Sizes}
    \cup {<<NoFile, 0, job_description>>}
    \cup {<<uploaded_file, upload_size, jd>> : jd \in JobDescriptions}

InitRun ==
  /\ variant \in Variants
  /\ env \in {EnvFull, EnvNoModel}
  /\ text = <<>>
  /\ doc = <<>>
  /\ min_length = MinKeywordLengthDefault
  /\ nlp = "unloaded"
  /\ kw = NoKeywords
  /\ ScoreIdle
  /\ ExtractIdle
  /\ RunIdle
  /\ CacheIdle

\* The user changes the upload or the text area: Streamlit runs app.py from
\* top to bottom with the new widget values.
AppRun ==
  /\ variant = "app"
  /\ \E w \in WidgetChanges :
       LET f == w[1]
           size == w[2]
           jd == w[3]
           r == app_run(f, size, jd, session_state, env, min_length)
       IN  /\ uploaded_file' = f
           /\ upload_size' = size
           /\ job_description' = jd
           /\ session_state' = r.session
           /\ display' = r.display
  /\ UNCHANGED <<variant, analyze_clicked, extraction, scoreVars, kwVars,
                 cacheVars>>

SimpleRun ==
  /\ variant = "simple"
  /\ \E w \in WidgetChanges :
       LET f == w[1]
           size == w[2]
           jd == w[3]
           r == simple_run(f, size, jd, session_state, env)
       IN  /\ uploaded_file' = f
           /\ upload_size' = size
           /\ job_description' = jd
           /\ session_state' = r.session
           /\ display' = r.display
  /\ UNCHANGED <<variant, analyze_clicked, extraction, scoreVars, kwVars,
                 cacheVars>>

\* app.py: the "Reset Analysis" button of the side bar, drawn by every run.
\* The run it starts clears st.cache_data and st.cache_resource and calls
\* st.experimental_rerun(): the script runs again with the same widget
\* values and the same session state.
AppResetAnalysis ==
  /\ variant = "app"
  /\ display.ran
  /\ LET r == app_run(uploaded_file, upload_size, job_description,
                      session_state, env, min_length)
     IN  /\ session_state' = r.session
         /\ display' = r.display @@ [after_reset |-> TRUE]
  /\ cache' = {}
  /\ UNCHANGED <<variant, uploaded_file, upload_size, job_description,
                 analyze_clicked, extraction, scoreVars, kwVars, returned>>

\* A widget of app_simple_backup.py changes: main() runs, no button pressed.
BackupRun ==
  /\ variant = "backup"
  /\ \E w \in WidgetChanges :
       LET f == w[1]
           size == w[2]
           jd == w[3]
           r == backup_run(f, size, jd, FALSE, session_state, env)
       IN  /\ uploaded_file' = f
           /\ upload_size' = size
           /\ job_description' = jd
           /\ session_state' = r.session
           /\ display' = r.display
  /\ analyze_clicked' = FALSE
  /\ UNCHANGED <<variant, extraction, scoreVars, kwVars, cacheVars>>

\* The user presses "Analyze Resume", which the last run has drawn: main()
\* runs with the same widget values.
BackupAnalyze ==
  /\ variant = "backup"
  /\ display.ran
  /\ display.button
  /\ LET r == backup_run(uploaded_file, upload_size, job_description, TRUE,
                         session_state, env)
     IN  /\ session_state' = r.session
         /\ display' = r.display
  /\ analyze_clicked' = TRUE
  /\ UNCHANGED <<variant, uploaded_file, upload_size, job_description,
                 extraction, scoreVars, kwVars, cacheVars>>

NextRun ==
  AppRun \/ AppResetAnalysis \/ SimpleRun \/ BackupRun \/ BackupAnalyze

SpecRun == InitRun /\ [][NextRun]_vars

(***************************************************************************)
(* The keyword cache: inputs and steps                                     *)
(***************************************************************************)
\* A slip of CacheKey: min_length is left out of the key.
CacheKey_text_only(t, m) == <<t>>

\* @st.cache_data: an entry is found by the arguments of the call
CacheKey(t, m) == <<t, m>>

CacheTexts ==
  {<<"S", "Q", "L", " ", "j", "a", "v", "a">>,
   <<"S", "k", "i", "l", "l", "s">>}

CacheMinLengths == {MinKeywordLengthDefault, MinKeywordLengthDefault + 1}

\* The installation after load_spacy_model has run: a successful download
\* has put the model on disk, so the next spacy.load of the installed
\* model ends as the load after the download did.
env_after_load(e) ==
  IF e.spacy_ok /\ e.model_load = "OSError" /\ e.download_ok
  THEN [e EXCEPT !.model_load = IF e.reload_ok THEN "ok" ELSE "OSError"]
  ELSE e

InitCache ==
  /\ variant \in {"app", "simple"}
  /\ env \in {e \in Envs : /\ e.fitz_ok /\ e.docx_ok
                           /\ e.nlp_call = "ok" /\ e.blank_lemma = "empty"}
  /\ text = <<>>
  /\ doc = <<>>
  /\ min_length = MinKeywordLengthDefault
  /\ nlp = "unloaded"
  /\ kw = NoKeywords
  /\ ScoreIdle
  /\ ExtractIdle
  /\ RunIdle
  /\ CacheIdle

\* The value of a call extract_keywords_cached(t, m) and the caches after
\* it.  n is the pipeline a miss works with: the cached resource, or what
\* the loader returns when the resource cache is empty.  served tells how
\* the value was obtained: from the cache, computed for the first time, or
\* computed again for arguments that had been served before.
CachedCall(t, m, n) ==
  LET hits == {c \in cache : c.key = CacheKey(t, m)}
      value == IF hits # {} THEN (CHOOSE c \in hits : TRUE).value
               ELSE extract_keywords_cached(t, Tokenise(Lower(t), 1), m, n,
                                            env).keywords
      served == IF hits # {} THEN "cache"
                ELSE IF \E r \in returned : r.text = t /\ r.min_length = m
                THEN "recomputed" ELSE "computed"
  IN  /\ cache' = cache \cup {[key |-> CacheKey(t, m), value |-> value]}
      /\ returned' = returned \cup
           {[text |-> t, min_length |-> m, keywords |-> value,
             served |-> served]}
      /\ nlp' = IF hits # {} THEN nlp ELSE n

\* app.py: a call of extract_keywords_cached
AppCall ==
  /\ variant = "app"
  /\ \E t \in CacheTexts, m \in CacheMinLengths :
       /\ CachedCall(t, m, IF nlp = "unloaded" THEN load_spacy_model(env).nlp
                           ELSE nlp)
       /\ env' = IF nlp = "unloaded"
                    /\ ~\E c \in cache : c.key = CacheKey(t, m)
                 THEN env_after_load(env) ELSE env
  /\ UNCHANGED <<variant, text, doc, min_length, kw, scoreVars, extractVars,
                 runVars>>

\* app_simple.py: a call of extract_keywords_cached
SimpleCall ==
  /\ variant = "simple"
  /\ \E t \in CacheTexts, m \in CacheMinLengths :
       CachedCall(t, m, IF nlp = "unloaded"
                        THEN simple_load_spacy_model(env).nlp ELSE nlp)
  /\ UNCHANGED <<variant, env, text, doc, min_length, kw, scoreVars,
                 extractVars, runVars>>

\* app.py: the "Reset Analysis" button: st.cache_data.clear() and
\* st.cache_resource.clear()
ResetAnalysis ==
  /\ variant = "app"
  /\ cache' = {}
  /\ nlp' = "unloaded"
  /\ UNCHANGED <<variant, env, text, doc, min_length, kw, returned,
                 scoreVars, extractVars, runVars>>

NextCache == AppCall \/ SimpleCall \/ ResetAnalysis

SpecCache == InitCache /\ [][NextCache]_vars

(***************************************************************************)
(* Display and export of a match result                                    *)
(***************************************************************************)
\* The report keeps list(missing_keywords)[:20]
ReportLimit == 20

\* app_simple.py and app_simple_backup.py show matched_list[:20] and
\* missing_list[:20]
ListLimit == 20

LetterRank ==
  [c \in Range(LowerLetters) |-> CHOOSE i \in 1..26 : LowerLetters[i] = c]

\* a < b for two strings of lower-case letters, as Python compares str
RECURSIVE StrLess(_, _)
StrLess(a, b) ==
  IF b = <<>> THEN FALSE
  ELSE IF a = <<>> THEN TRUE
  ELSE IF a[1] = b[1] THEN StrLess(Tail(a), Tail(b))
  ELSE LetterRank[a[1]] < LetterRank[b[1]]

\* A slip of sorted(): descending order.
RECURSIVE sorted_descending(_)
sorted_descending(S) ==
  IF S = {} THEN <<>>
  ELSE LET x == CHOOSE y \in S : \A z \in S : z = y \/ StrLess(z, y)
       IN  <<x>> \o sorted_descending(S \ {x})

\* The ascending list xs with x put in its place.
RECURSIVE Insert(_, _)
Insert(x, xs) ==
  IF xs = <<>> THEN <<x>>
  ELSE IF StrLess(x, Head(xs)) THEN <<x>> \o xs
  ELSE <<Head(xs)>> \o Insert(x, Tail(xs))

\* sorted(S) for a set (or list without duplicates) of keywords
RECURSIVE sorted(_)
sorted(S) ==
  IF S = {} THEN <<>>
  ELSE LET x == CHOOSE y \in S : TRUE
       IN  Insert(x, sorted(S \ {x}))

\* A slip of xs[:n]: the last n items.
Take_last(xs, n) ==
  IF Len(xs) <= n THEN xs ELSE SubSeq(xs, Len(xs) - n + 1, Len(xs))

\* xs[:n]
Take(xs, n) == IF Len(xs) <= n THEN xs ELSE SubSeq(xs, 1, n)

\* The subsets of S with k members.
RECURSIVE Subsets(_, _)
Subsets(S, k) ==
  IF k = 0 THEN {{}}
  ELSE UNION {{D \cup {x} : D \in Subsets(S \ {x}, k - 1)} : x \in S}

\* The members list(S)[:n] can hold.  The iteration order of a set of str is
\* not determined by its members (it follows the hash seed of the process
\* and the history of the set), so the first n items of list(S) are any n
\* members of S.
ListPrefixes(S, n) ==
  IF Cardinality(S) <= n THEN {S}
  ELSE {S \ D : D \in Subsets(S, Cardinality(S) - n)}

\* ', '.join(xs)
RECURSIVE CommaJoin(_)
CommaJoin(xs) ==
  IF xs = <<>> THEN <<>>
  ELSE IF Len(xs) = 1 THEN xs[1]
  ELSE xs[1] \o <<",", " ">> \o CommaJoin(Tail(xs))

\* A slip of to_csv: header=False.
to_csv_without_header(matched_list) == matched_list

\* pd.DataFrame(matched_list, columns=["Matched Keywords"])
\*   .to_csv(index=False), as its lines: the header, then one line per row.
\* A keyword holds letters only, so no field is quoted.
to_csv(matched_list) == <<"Matched Keywords">> \o matched_list

\* No report was generated in the run.
NoReport == [generated |-> FALSE]

\* app.py: the analysis_summary of the "Full Report" button, its lines that
\* depend on the match result.  head is list(missing_keywords)[:20].
analysis_summary(r, head) ==
  [generated     |-> TRUE,
   match_score   |-> r.score,
   matched_count |-> Cardinality(r.matched),
   missing_count |-> Cardinality(r.missing),
   matched_line  |-> CommaJoin(sorted(r.matched)),
   missing_line  |-> CommaJoin(sorted(head))]

\* app.py: what the run renders of the match result r.  clicked is the
\* export button pressed in the run before ("none", "csv", "report").
app_display(r, show_missing_keywords, clicked, head) ==
  LET matched_list == sorted(r.matched)
      missing_list == sorted(r.missing)
  IN  [ran            |-> TRUE,
       matched_chips  |-> IF r.matched # {} THEN matched_list ELSE <<>>,
       export_toolbar |-> r.matched # {},
       csv            |-> IF r.matched # {} /\ clicked = "csv"
                          THEN to_csv(matched_list) ELSE None,
       report         |-> IF r.matched # {} /\ clicked = "report"
                          THEN analysis_summary(r, head) ELSE NoReport,
       no_matches     |-> r.matched = {},
       missing_chips  |-> IF show_missing_keywords /\ r.missing # {}
                          THEN missing_list ELSE <<>>,
       next_steps     |-> r.matched # {} \/ r.missing # {}]

\* The number an "... and N more" note states (0: no note).
More(xs) == IF Len(xs) > ListLimit THEN Len(xs) - ListLimit ELSE 0

\* app_simple.py: one bullet per keyword of matched_list[:20] and of
\* missing_list[:20], and the "... and N more" notes
simple_display(r) ==
  LET matched_list == sorted(r.matched)
      missing_list == sorted(r.missing)
  IN  [ran            |-> TRUE,
       matched_shown  |-> Take(matched_list, ListLimit),
       matched_more   |-> More(matched_list),
       missing_shown  |-> Take(missing_list, ListLimit),
       missing_more   |-> More(missing_list)]

\* app_simple_backup.py: ", ".join(matched_list[:20]) and
\* ", ".join(missing_list[:20])
backup_display(r) ==
  [ran          |-> TRUE,
   matched_line |-> CommaJoin(Take(sorted(r.matched), ListLimit)),
   missing_line |-> CommaJoin(Take(sorted(r.missing), ListLimit))]

\* Keywords the displayed results draw from: "kh", "kox", "kvx", "kc", ...
ShownWord(i) ==
  <<"k", LowerLetters[((7 * i) % 26) + 1]>>
    \o (IF i % 3 = 1 THEN <<>> ELSE <<"x">>)

ShownWords(n) == {ShownWord(i) : i \in 1..n}

ShownJds ==
  {ShownWords(n) : n \in {0, 1, 3, ReportLimit, MaxShown - 1, MaxShown}}

ShownResumes ==
  {{}, {ShownWord(1)}, {ShownWord(2), ShownWord(3)},
   {ShownWord(2), ShownWord(MaxShown)}, ShownWords(MaxShown)}

InitShow ==
  /\ variant \in Variants
  /\ \E rk \in ShownResumes, jk \in ShownJds :
       IF variant = "backup"
       THEN resume_keywords = SetToSeq(rk) /\ jd_keywords = SetToSeq(jk)
       ELSE resume_keywords = rk /\ jd_keywords = jk
  /\ match_result = NoResult
  /\ KwIdle
  /\ ExtractIdle
  /\ RunIdle
  /\ CacheIdle

\* app.py: a run that reaches the analysis section.  An export button can
\* be pressed only when the run before has drawn it.
AppShow ==
  /\ variant = "app"
  /\ LET r == match_score(resume_keywords, jd_keywords)
     IN  /\ match_result' = r
         /\ \E show_missing_keywords \in BOOLEAN,
               clicked \in {"none", "csv", "report"} :
              /\ clicked # "none" => display.ran /\ display.export_toolbar
              /\ \E head \in (IF clicked = "report"
                               THEN ListPrefixes(r.missing, ReportLimit)
                               ELSE {{}}) :
                   display' = app_display(r, show_missing_keywords, clicked,
                                          head)
  /\ UNCHANGED <<variant, resume_keywords, jd_keywords, kwVars, extractVars,
                 upload_size, job_description, analyze_clicked,
                 session_state, cacheVars>>

\* app_simple.py: a run that reaches the analysis section
SimpleShow ==
  /\ variant = "simple"
  /\ LET r == match_score(resume_keywords, jd_keywords)
     IN  /\ match_result' = r
         /\ display' = simple_display(r)
  /\ UNCHANGED <<variant, resume_keywords, jd_keywords, kwVars, extractVars,
                 upload_size, job_description, analyze_clicked,
                 session_state, cacheVars>>

\* app_simple_backup.py: the "Analyze Resume" button with a readable resume
BackupShow ==
  /\ variant = "backup"
  /\ LET r == calculate_match_score(resume_keywords, jd_keywords)
     IN  /\ match_result' = r
         /\ display' = backup_display(r)
  /\ UNCHANGED <<variant, resume_keywords, jd_keywords, kwVars, extractVars,
                 upload_size, job_description, analyze_clicked,
                 session_state, cacheVars>>

NextShow == AppShow \/ SimpleShow \/ BackupShow

SpecShow == InitShow /\ [][NextShow]_vars

(***************************************************************************)
(* The analysis of two given texts                                         *)
(***************************************************************************)
\* "Experienced Python developer with SQL skills"
ScenarioResume ==
  <<"E", "x", "p", "e", "r", "i", "e", "n", "c", "e", "d", " ", "P",
    "y", "t", "h", "o", "n", " ", "d", "e", "v", "e", "l", "o", "p",
    "e", "r", " ", "w", "i", "t", "h", " ", "S", "Q", "L", " ", "s",
    "k", "i", "l", "l", "s">>

\* "Looking for a Python developer with SQL and AWS experience"
ScenarioJd ==
  <<"L", "o", "o", "k", "i", "n", "g", " ", "f", "o", "r", " ", "a",
    " ", "P", "y", "t", "h", "o", "n", " ", "d", "e", "v", "e", "l",
    "o", "p", "e", "r", " ", "w", "i", "t", "h", " ", "S", "Q", "L",
    " ", "a", "n", "d", " ", "A", "W", "S", " ", "e", "x", "p", "e",
    "r", "i", "e", "n", "c", "e">>

\* The lemma the language model assigns to "experienced": the word itself
\* when it is tagged as an adjective, "experience" when tagged as a verb
\* form.
ExperiencedLemmas == {<<"e", "x", "p", "e", "r", "i", "e", "n", "c", "e", "d">>, <<"e", "x", "p", "e", "r", "i", "e", "n", "c", "e">>}

\* The document d with the lemma l for the token "experienced".
WithLemma(d, l) ==
  [i \in DOMAIN d |->
     IF d[i].text = <<"e", "x", "p", "e", "r", "i", "e", "n", "c", "e", "d">> THEN [d[i] EXCEPT !.lemma_ = l] ELSE d[i]]

\* nlp(t.lower())
Document(t, l) == WithLemma(Tokenise(Lower(t), 1), l)

\* The analysis block on two keyword extractions: an exception of either
\* ends the run before a result exists.
analyse(rk, jk) ==
  IF rk.raised \/ jk.raised
  THEN [computed |-> FALSE, raised |-> TRUE]
  ELSE match_score(rk.keywords, jk.keywords)

InitScenario ==
  /\ variant \in Variants
  /\ env \in Envs
  /\ text = ScenarioResume
  /\ job_description = ScenarioJd
  /\ min_length = MinKeywordLengthDefault
  /\ doc = <<>>
  /\ nlp = "unloaded"
  /\ kw = NoKeywords
  /\ ScoreIdle
  /\ ExtractIdle
  /\ upload_size = 0
  /\ analyze_clicked = FALSE
  /\ session_state = [processed_resume |-> None, processed_jd |-> None,
                      last_resume_hash |-> None, last_jd_hash |-> None]
  /\ display = NoDisplay
  /\ CacheIdle

\* app.py: the analysis block on the two texts
AppAnalyse ==
  /\ variant = "app"
  /\ ~match_result.computed
  /\ \E l \in ExperiencedLemmas :
       LET n == load_spacy_model(env).nlp
           rk == extract_keywords_cached(text, Document(text, l),
                                         min_length, n, env)
           jk == extract_keywords_cached(job_description,
                                         Document(job_description, l),
                                         min_length, n, env)
       IN  /\ nlp' = n
           /\ resume_keywords' = rk.keywords
           /\ jd_keywords' = jk.keywords
           /\ match_result' = analyse(rk, jk)
  /\ UNCHANGED <<variant, env, text, doc, min_length, kw, extractVars,
                 runVars, cacheVars>>

\* app_simple.py: the analysis block on the two texts
SimpleAnalyse ==
  /\ variant = "simple"
  /\ ~match_result.computed
  /\ \E l \in ExperiencedLemmas :
       LET n == simple_load_spacy_model(env).nlp
           rk == extract_keywords_cached(text, Document(text, l),
                                         min_length, n, env)
           jk == extract_keywords_cached(job_description,
                                         Document(job_description, l),
                                         min_length, n, env)
       IN  /\ nlp' = n
           /\ resume_keywords' = rk.keywords
           /\ jd_keywords' = jk.keywords
           /\ match_result' = analyse(rk, jk)
  /\ UNCHANGED <<variant, env, text, doc, min_length, kw, extractVars,
                 runVars, cacheVars>>

\* app_simple_backup.py: extract_keywords on the two texts, then
\* calculate_match_score on the two lists
BackupAnalyseTexts ==
  /\ variant = "backup"
  /\ ~match_result.computed
  /\ \E l \in ExperiencedLemmas :
       LET rk == extract_keywords(text, Document(text, l), env)
           jk == extract_keywords(job_description,
                                  Document(job_description, l), env)
       IN  /\ nlp' = backup_load_dependencies(env).nlp
           /\ resume_keywords' = SetToSeq(rk.keywords)
           /\ jd_keywords' = SetToSeq(jk.keywords)
           /\ match_result' =
                IF rk.raised \/ jk.raised
                THEN [computed |-> FALSE, raised |-> TRUE]
                ELSE calculate_match_score(SetToSeq(rk.keywords),
                                           SetToSeq(jk.keywords))
  /\ UNCHANGED <<variant, env, text, doc, min_length, kw, extractVars,
                 runVars, cacheVars>>

NextScenario == AppAnalyse \/ SimpleAnalyse \/ BackupAnalyseTexts

SpecScenario == InitScenario /\ [][NextScenario]_vars

(***************************************************************************)
(* The scorer on long keyword lists                                        *)
(***************************************************************************)
\* The i-th of a supply of distinct keywords: the scorer only compares
\* keywords for equality and counts them.
Keyword(i) == i

Keywords(n) == {Keyword(i) : i \in 1..n}

\* Numbers of distinct job-description keywords: short texts, and texts
\* long enough for one keyword to weigh less than half a unit of the last
\* decimal place the score is rounded to (0.05 of 100 in
\* app_simple_backup.py, 0.005 in app.py and app_simple.py).
JdSizes == {1, 2, 3, 7, 150, 1999, 2001, 2002, 19999, 20001, 20002}

\* The resume holds none, one, all but one or all of the n keywords.
ResumeSizes(n) == {0, 1, n - 1, n}

InitLongLists ==
  /\ variant \in Variants
  /\ \E n \in JdSizes : \E k \in ResumeSizes(n) :
       IF variant = "backup"
       THEN /\ jd_keywords = [i \in 1..n |-> Keyword(i)]
            /\ resume_keywords = [i \in 1..k |-> Keyword(i)]
       ELSE /\ jd_keywords = Keywords(n)
            /\ resume_keywords = Keywords(k)
  /\ match_result = NoResult
  /\ KwIdle
  /\ ExtractIdle
  /\ RunIdle
  /\ CacheIdle

SpecLongLists == InitLongLists /\ [][NextScore]_vars

(***************************************************************************)
(* Extraction and normalisation in one installation                        *)
(***************************************************************************)
\* Uploads of at most one page or paragraph, or one byte.
SmallFiles == {f \in Files : Len(f.parts) <= 1 /\ Len(f.data) <= 1}

\* Any combination of importable libraries, the language model installed;
\* an upload and a text.
InitDeps ==
  /\ variant \in Variants
  /\ env \in {e \in Envs :
                /\ e.model_load = "ok" /\ e.download_ok /\ e.reload_ok
                /\ e.blank_lemma = "empty" /\ e.nlp_call = "ok"}
  /\ uploaded_file \in SmallFiles
  /\ extraction = NoExtraction
  /\ doc \in {d \in Docs : Len(d) <= 1}
  /\ text = TextOf(doc)
  /\ min_length = MinKeywordLengthDefault
  /\ nlp = "unloaded"
  /\ kw = NoKeywords
  /\ ScoreIdle
  /\ RunIdle
  /\ CacheIdle

NextDeps == NextExtract \/ NextKw

SpecDeps == InitDeps /\ [][NextDeps]_vars

(***************************************************************************)
(* Scorer properties                                                       *)
(***************************************************************************)
\* The scorer's inputs as sets: calculate_match_score receives lists.
ResumeSet == IF variant = "backup" THEN Range(resume_keywords) ELSE resume_keywords

JdSet == IF variant = "backup" THEN Range(jd_keywords) ELSE jd_keywords

Scored == match_result.computed

\* s (in hundredths) is num/den percent rounded to two decimal places: no
\* other multiple of 0.01 is nearer, and on a tie s is the even one.
IsTwoDecimalRounding(s, num, den) ==
  LET exact == 10000 * num
      diff == IF s * den >= exact THEN s * den - exact ELSE exact - s * den
  IN  /\ 2 * diff <= den
      /\ (2 * diff = den => s % 2 = 0)

\* C1: in every variant the match percentage is 0.0 when the job-description
\* keyword set is empty and otherwise 100 * |A \cap B| / |B| rounded to two
\* decimal places.
C1_PercentageTwoDecimals ==
  Scored =>
    IF JdSet = {}
    THEN match_result.score = 0
    ELSE IsTwoDecimalRounding(match_result.score,
                              Cardinality(ResumeSet \cap JdSet),
                              Cardinality(JdSet))

\* C2: in every variant (lists with duplicates included) matched is exactly
\* the keywords in both inputs and missing exactly the job-description
\* keywords not in the resume; matched is a subset of both inputs.
C2_MatchedIsIntersection ==
  Scored =>
    /\ \A k \in ResumeSet \cup JdSet \cup match_result.matched :
         k \in match_result.matched <=> (k \in ResumeSet /\ k \in JdSet)
    /\ \A k \in ResumeSet \cup JdSet \cup match_result.missing :
         k \in match_result.missing <=> (k \in JdSet /\ k \notin ResumeSet)
    /\ match_result.matched \subseteq ResumeSet
    /\ match_result.matched \subseteq JdSet

C2_Witness ==
  /\ Scored
  /\ variant = "backup"
  /\ Len(jd_keywords) > Cardinality(JdSet)
  /\ Len(resume_keywords) > Cardinality(ResumeSet)
  /\ match_result.matched # {}
  /\ match_result.missing # {}

\* C3: matched and missing partition the job-description set: they are
\* disjoint, their union is the job-description set, and the two counts add
\* up to the number of job-description keywords.
C3_MatchedMissingPartition ==
  Scored =>
    /\ match_result.matched \cap match_result.missing = {}
    /\ match_result.matched \cup match_result.missing = JdSet
    /\ Cardinality(match_result.matched) + Cardinality(match_result.missing)
         = Cardinality(JdSet)

C3_Witness ==
  /\ Scored
  /\ variant = "backup"
  /\ Cardinality(match_result.matched) = 1
  /\ Cardinality(match_result.missing) = 2

\* C4: with an empty job-description keyword set, whatever the resume
\* keywords, the score is 0.0, matched and missing are empty and nothing is
\* raised (no division by zero).
C4_EmptyJobDescription ==
  (Scored /\ JdSet = {}) =>
    /\ match_result.score = 0
    /\ match_result.matched = {}
    /\ match_result.missing = {}
    /\ ~match_result.raised

C4_Witness ==
  /\ Scored
  /\ JdSet = {}
  /\ ResumeSet # {}
  /\ variant \in {"app", "simple"}

\* C5: whenever a match result exists its score is between 0 and 100.
C5_ScoreInRange ==
  Scored => (match_result.score >= 0 /\ match_result.score <= 10000)

C5_Witness ==
  /\ Scored
  /\ match_result.score > 0
  /\ match_result.score < 10000
  /\ Cardinality(ResumeSet) > Cardinality(JdSet)

\* C6: scoring a non-empty keyword set against itself gives exactly 100.0,
\* with everything matched and nothing missing.
C6_SelfScoreIsPerfect ==
  (Scored /\ ResumeSet = JdSet /\ JdSet # {}) =>
    /\ match_result.score = 10000
    /\ match_result.matched = ResumeSet
    /\ match_result.missing = {}

C6_Witness ==
  /\ Scored
  /\ ResumeSet = JdSet
  /\ Cardinality(JdSet) >= 2

(***************************************************************************)
(* Keyword normaliser properties                                           *)
(***************************************************************************)
Normalised == kw.done

\* The retention condition as the specification states it.
SpecifiedTokenKept(tok, m) ==
  /\ tok.is_alpha
  /\ ~tok.is_stop
  /\ ~tok.is_punct
  /\ ~tok.like_num
  /\ Len(tok.lemma_) >= m

\* C7: on the NLP path, in every variant (min_length 3 in
\* app_simple_backup.py), the keyword set is exactly the lower-cased lemmas
\* of the tokens that are alphabetic, not stop words, not punctuation, not
\* number-like and whose lemma has at least min_length characters.
C7_TokenFilter ==
  Normalised =>
    /\ kw.path = "nlp"
    /\ kw.keywords =
         {Lower(doc[i].lemma_) :
            i \in {j \in DOMAIN doc : SpecifiedTokenKept(doc[j], min_length)}}

\* The maximal runs of letters of s.
MaximalLetterRuns(s) ==
  UNION {{SubSeq(s, i, j) : j \in {k \in i..Len(s) :
            /\ \A n \in i..k : IsLetter(s[n])
            /\ (i = 1 \/ ~IsLetter(s[i - 1]))
            /\ (k = Len(s) \/ ~IsLetter(s[k + 1]))}} : i \in 1..Len(s)}

\* The whole words of s: the maximal runs of word characters (letters,
\* digits, underscore).
WholeWords(s) ==
  UNION {{SubSeq(s, i, j) : j \in {k \in i..Len(s) :
            /\ \A n \in i..k : IsWordChar(s[n])
            /\ (i = 1 \/ ~IsWordChar(s[i - 1]))
            /\ (k = Len(s) \/ ~IsWordChar(s[k + 1]))}} : i \in 1..Len(s)}

AllLetters(w) == \A i \in 1..Len(w) : IsLetter(w[i])

\* The fixed stop-word list of the running variant.
StopList == IF variant = "backup" THEN stop_words ELSE stopwords

\* The keywords the statement of C8 describes.
RunKeywords ==
  {w \in {Lower(r) : r \in MaximalLetterRuns(text)} :
     Len(w) >= 3 /\ Len(w) >= min_length /\ w \notin StopList}

\* The keywords the amended statement describes.
WordKeywords ==
  {w \in WholeWords(Lower(text)) :
     AllLetters(w) /\ Len(w) >= 3 /\ Len(w) >= min_length /\ w \notin StopList}

\* C8 as stated: on the regex path the keyword set is exactly the
\* lower-cased maximal runs of 3 or more letters that are at least
\* min_length long and not stop words; no keyword is shorter than min_length
\* or a stop word; the set is non-empty when the text has such a run.
C8_MaximalLetterRuns ==
  Normalised =>
    /\ kw.path = "regex"
    /\ kw.keywords = RunKeywords
    /\ \A w \in kw.keywords : Len(w) >= min_length /\ w \notin StopList
    /\ (RunKeywords # {} => kw.keywords # {})

\* C8 amended: on the regex path the keyword set is exactly the whole words
\* of the lower-cased text (maximal runs of letters, digits and underscore)
\* that consist of 3 or more letters only, are at least min_length long and
\* are not in the variant's stop-word list; no keyword is shorter than
\* min_length or a stop word; the set is non-empty when the text has such a
\* word.
C8_WholeLetterWords ==
  Normalised =>
    /\ kw.path = "regex"
    /\ kw.keywords = WordKeywords
    /\ \A w \in kw.keywords : Len(w) >= min_length /\ w \notin StopList
    /\ (WordKeywords # {} => kw.keywords # {})

\* A text with an upper-case word, a word that a digit touches and a longer
\* word, of which only the longer word is a keyword.
C8_Witness ==
  /\ Normalised
  /\ kw.path = "regex"
  /\ min_length = 4
  /\ \E i \in 1..Len(text) : text[i] \in Range(UpperLetters)
  /\ \E i \in 1..Len(text) : text[i] \in Digits
  /\ kw.keywords = {<<"j", "a", "v", "a">>}

\* The pre-trained model cannot be loaded: the NLP library is not
\* importable, or it is and the model is missing and cannot be downloaded.
\* The two document parsers are installed.
ModelUnavailable ==
  /\ env.fitz_ok /\ env.docx_ok
  /\ \/ ~env.spacy_ok
     \/ /\ env.spacy_ok
        /\ env.model_load = "OSError"
        /\ ~(env.download_ok /\ env.reload_ok)

IsPrefix(p, q) == Len(p) <= Len(q) /\ SubSeq(q, 1, Len(p)) = p

\* C9: whenever the model cannot be loaded the keywords come from the regex
\* fallback and nothing is raised; the loader of app.py, when the library is
\* importable and the installed model is missing, has tried the installed
\* model, then the download and (the download done) a second load before
\* it degrades.
C9_DegradesToRegex ==
  (Normalised /\ ModelUnavailable) =>
    /\ kw.path = "regex"
    /\ ~kw.raised
    /\ ((variant = "app" /\ env.spacy_ok) =>
          /\ IsPrefix(<<"load", "download">>, kw.trace)
          /\ (env.download_ok =>
                IsPrefix(<<"load", "download", "load">>, kw.trace)))

(***************************************************************************)
(* Text extractor properties                                               *)
(***************************************************************************)
Extracted == extraction.done

\* The variant's parser for the type of f is installed, so the extractor
\* calls it.
ParserCalled(f) ==
  /\ f.type \in {PDF, DOCX}
  /\ IF variant = "backup"
     THEN (IF f.type = PDF THEN env.fitz_ok ELSE env.docx_ok)
     ELSE env.fitz_ok /\ env.spacy_ok /\ env.docx_ok

IsError(m) ==
  m \in {"error: Failed to read PDF", "error: Failed to read DOCX",
   "error: Error reading file"}

\* C10: if the parser raises at any point of the extraction of a PDF or
\* DOCX (opening the stream, reading any page or paragraph), the extractor
\* returns the empty string, reports an error, and raises nothing.
C10_ParserFailureGivesEmptyText ==
  (Extracted /\ ParserCalled(uploaded_file) /\ ParserFails(uploaded_file)) =>
    /\ extraction.text = <<>>
    /\ \E i \in 1..Len(extraction.messages) : IsError(extraction.messages[i])
    /\ ~extraction.raised

\* bytes.decode("utf-8", errors="replace"): each undecodable byte sequence
\* becomes the replacement character U+FFFD, written "REPL" here.
DecodeReplace(data) ==
  [i \in 1..Len(data) |-> IF data[i] = "BAD" THEN "REPL" ELSE data[i]]

\* C11: for every byte sequence declared as plain text, valid UTF-8 or not,
\* extraction raises nothing and returns the UTF-8 decoding of the bytes
\* with each undecodable byte sequence replaced, in every variant.
C11_PlainTextDecodedWithReplacement ==
  (Extracted /\ uploaded_file.type = TXT) =>
    /\ ~extraction.raised
    /\ extraction.text = DecodeReplace(uploaded_file.data)

\* str.splitlines() on the modelled characters: the lines of t, a final
\* newline ending the last line.
RECURSIVE SplitLines(_)
SplitLines(t) ==
  IF t = <<>> THEN <<>>
  ELSE IF \E i \in 1..Len(t) : t[i] = "\n"
  THEN LET n == CHOOSE i \in 1..Len(t) :
                  t[i] = "\n" /\ \A j \in 1..(i - 1) : t[j] # "\n"
       IN  <<SubSeq(t, 1, n - 1)>> \o SplitLines(SubSeq(t, n + 1, Len(t)))
  ELSE <<t>>

\* The keywords the running variant derives from the text t.
KeywordsOf(t) ==
  IF variant = "app" THEN app_keywords(t, MinKeywordLengthDefault, env).keywords
  ELSE IF variant = "simple"
  THEN simple_keywords(t, MinKeywordLengthDefault, env).keywords
  ELSE backup_keywords(t, env).keywords

ExtractedInOrder ==
  /\ Extracted
  /\ ParserCalled(uploaded_file)
  /\ ~ParserFails(uploaded_file)

IsUnsupportedMessage(m) ==
  m = "error: Unsupported file type. Please upload PDF, DOCX, or TXT."

\* C14: whenever the declared type of the upload is none of PDF, DOCX and
\* plain text, a message is shown and the bytes are neither parsed nor
\* decoded: the extractor yields no text.
C14_UnsupportedTypeRejected ==
  (Extracted /\ uploaded_file.type \notin {PDF, DOCX, TXT}) =>
    /\ \E i \in 1..Len(extraction.messages) :
         IsUnsupportedMessage(extraction.messages[i])
    /\ extraction.text = <<>>

\* The parser library for the declared type of f cannot be imported.
ParserMissing(f) ==
  \/ f.type = PDF /\ ~env.fitz_ok
  \/ f.type = DOCX /\ ~env.docx_ok

\* The message asks for the resume as a plain-text file.
IsPlainTextInstruction(m) ==
  m \in {"error: PDF processing not available. Please upload a TXT file.",
         "error: DOCX processing not available. Please upload a TXT file."}

\* C16: whenever the parser library for the type of the uploaded PDF or
\* DOCX is not installed, extraction returns the empty string and the user
\* is told to upload the resume as a plain-text file, in every variant.
C16_MissingParserAsksForPlainText ==
  (Extracted /\ ParserMissing(uploaded_file)) =>
    /\ extraction.text = <<>>
    /\ \E i \in 1..Len(extraction.messages) :
         IsPlainTextInstruction(extraction.messages[i])

(***************************************************************************)
(* Script-run properties                                                   *)
(***************************************************************************)
Ran == display.ran

Uploaded == uploaded_file # NoFile

ResultShown == display.ran /\ display.result.computed

Shows(m) == \E i \in 1..Len(display.messages) : display.messages[i] = m

\* The text the running variant extracts from the current upload.
CurrentExtraction ==
  IF variant = "app" THEN app_extract(uploaded_file, env).text
  ELSE IF variant = "simple" THEN simple_extract(uploaded_file, env).text
  ELSE extract_text_from_file(uploaded_file, env).text

\* C13: in every variant, a run whose upload is larger than 10MB shows the
\* size message, invokes no extractor on the file and neither computes nor
\* displays a match result.
C13_OversizeRejected ==
  (Ran /\ Uploaded /\ upload_size > SizeLimit) =>
    /\ Shows(TooLargeMessage)
    /\ ~display.extractor_called
    /\ ~display.result.computed

\* The run is one in which the variant extracts or has extracted the text
\* of the current upload and a job description is present: the upload is
\* within the size limit and, in app_simple_backup.py, the analysis was
\* asked for.
ExtractionDue ==
  /\ Ran
  /\ Uploaded
  /\ upload_size <= SizeLimit
  /\ job_description # <<>>
  /\ variant = "backup" => analyze_clicked

\* The message says that no text could be read from the resume: the
\* warning of the analysis section or the error of an extractor.
IsNoTextWarning(m) ==
  m = "error: Could not extract text from the resume." \/ IsError(m)

\* C15: in every variant, when the extraction of the uploaded resume yields
\* the empty string or white space only and a job description is present,
\* no score is computed and the user is shown a warning that no text could
\* be extracted from the resume.
C15_EmptyTextWarned ==
  (ExtractionDue /\ Strip(CurrentExtraction) = <<>>) =>
    /\ ~display.result.computed
    /\ \E i \in 1..Len(display.messages) : IsNoTextWarning(display.messages[i])

\* C17: in every variant, every run in which an uploaded resume has
\* usable extracted text and the job-description text is not empty
\* computes and displays the match result, with no further precondition.
C17_ResultInSameRun ==
  (Ran /\ Uploaded /\ upload_size <= SizeLimit /\ job_description # <<>>
     /\ Strip(CurrentExtraction) # <<>>)
    => ResultShown

\* C18: in app.py and app_simple.py, after any sequence of runs, analysis
\* results are shown only in a run in which a resume file is uploaded and
\* the job-description text is not empty.
C18_ResultsOnlyWhenBothReady ==
  (variant \in {"app", "simple"} /\ ResultShown) =>
    (Uploaded /\ job_description # <<>>)

\* C19: after any sequence of runs, every displayed match result is
\* computed from the text extracted from the current upload under its
\* current declared type and from the current job-description text.
C19_ResultFromCurrentInputs ==
  ResultShown =>
    /\ Uploaded
    /\ display.resume_text = CurrentExtraction
    /\ display.job_desc_text = job_description

RECURSIVE SpaceJoin(_)
SpaceJoin(ws) ==
  IF ws = <<>> THEN <<>>
  ELSE IF Len(ws) = 1 THEN ws[1]
  ELSE ws[1] \o <<" ">> \o SpaceJoin(Tail(ws))

\* The variant's normaliser applied, in the same installation and with the
\* same min_length, to the keywords it returned, joined by blanks.
Renormalised ==
  LET t == SpaceJoin(SetToSeq(kw.keywords))
  IN  IF variant = "app" THEN app_keywords(t, min_length, env).keywords
      ELSE IF variant = "simple"
      THEN simple_keywords(t, min_length, env).keywords
      ELSE backup_keywords(t, env).keywords

\* C21: normalising the space-joined keywords of a text, with the same
\* min_length, returns exactly the keywords of the text.
C21_NormaliseIdempotent ==
  (Normalised /\ ~kw.raised) => Renormalised = kw.keywords

(***************************************************************************)
(* Display and export properties                                           *)
(***************************************************************************)
Rendered == display.ran

\* xs is in strictly ascending order: ascending, and no item twice.
Ascending(xs) ==
  \A i, j \in DOMAIN xs : i < j => StrLess(xs[i], xs[j])

\* The items of a comma-joined line.
RECURSIVE SplitComma(_)
SplitComma(s) ==
  IF s = <<>> THEN <<>>
  ELSE LET commas == {i \in DOMAIN s : s[i] = ","}
       IN  IF commas = {} THEN <<s>>
           ELSE LET i == CHOOSE c \in commas : \A d \in commas : c <= d
                IN  <<SubSeq(s, 1, i - 1)>>
                      \o SplitComma(SubSeq(s, i + 2, Len(s)))

\* xs lists, in ascending order, every member of S.
ListsAll(xs, S) == Ascending(xs) /\ Range(xs) = S

\* xs is the first limit items (all, if there are fewer) of the ascending
\* list of S.
ListsFirst(xs, S, limit) ==
  /\ Ascending(xs)
  /\ Range(xs) \subseteq S
  /\ Len(xs) = (IF Cardinality(S) <= limit THEN Cardinality(S) ELSE limit)
  /\ \A x \in Range(xs), y \in S \ Range(xs) : StrLess(x, y)

ReportGenerated == Rendered /\ variant = "app" /\ display.report.generated

\* C23: the report lists all matched keywords comma-joined; its
\* missing-skills line holds exactly min(20, |missing|) distinct members of
\* the missing set; and two reports generated from the same match result
\* have the same missing-skills line.
C23_ReportMissingLine ==
  /\ [](ReportGenerated =>
          LET line == SplitComma(display.report.missing_line)
              n == Cardinality(match_result.missing)
          IN  /\ Range(SplitComma(display.report.matched_line))
                   = match_result.matched
              /\ Range(line) \subseteq match_result.missing
              /\ Len(line) = Cardinality(Range(line))
              /\ Len(line) = (IF n <= ReportLimit THEN n ELSE ReportLimit))
  /\ [][(ReportGenerated /\ ReportGenerated'
           /\ match_result' = match_result)
          => display'.report.missing_line = display.report.missing_line]_vars

(***************************************************************************)
(* The example texts                                                       *)
(***************************************************************************)
\* C24: for the resume "Experienced Python developer with SQL skills" and
\* the job text "Looking for a Python developer with SQL and AWS
\* experience", min_length 3, the matched set contains python, sql,
\* developer and experience, the missing set contains aws and looking, and
\* the score is 100 * |matched| / |jd_keywords| of those sets.
C24_ExampleTexts ==
  match_result.computed =>
    /\ {<<"p", "y", "t", "h", "o", "n">>, <<"s", "q", "l">>,
        <<"d", "e", "v", "e", "l", "o", "p", "e", "r">>,
        <<"e", "x", "p", "e", "r", "i", "e", "n", "c", "e">>}
         \subseteq match_result.matched
    /\ {<<"a", "w", "s">>, <<"l", "o", "o", "k", "i", "n", "g">>}
         \subseteq match_result.missing
    /\ match_result.matched = ResumeSet \cap JdSet
    /\ match_result.missing = JdSet \ ResumeSet
    /\ ~match_result.raised
    /\ match_result.score
         = Percent(Cardinality(match_result.matched), Cardinality(JdSet),
                   IF variant = "backup" THEN 1 ELSE 2).value

(***************************************************************************)
(* Re-extraction in app.py                                                 *)
(***************************************************************************)
AfterReset == display.ran /\ "after_reset" \in DOMAIN display

\* C25: in app.py, a run whose upload has the hash stored in
\* last_resume_hash invokes no extractor and leaves processed_resume and
\* last_resume_hash as they were, whether the run follows a widget change
\* or "Reset Analysis"; last_resume_hash changes only in a run that
\* extracts the upload of that hash.
C25_NoReextraction ==
  /\ [][(variant = "app" /\ uploaded_file' # NoFile
           /\ file_hash(uploaded_file') = session_state.last_resume_hash)
          => /\ ~display'.extractor_called
             /\ session_state'.processed_resume
                  = session_state.processed_resume
             /\ session_state'.last_resume_hash
                  = session_state.last_resume_hash]_vars
  /\ [][(variant = "app"
           /\ session_state'.last_resume_hash
                # session_state.last_resume_hash)
          => /\ display'.extractor_called
             /\ session_state'.last_resume_hash = file_hash(uploaded_file')]_vars

\* After "Reset Analysis" the file whose extraction failed (empty text, an
\* error reported when it was read) is still the upload and has not been
\* extracted again.
C25_Witness ==
  /\ variant = "app"
  /\ AfterReset
  /\ uploaded_file # NoFile
  /\ uploaded_file.type = PDF
  /\ ParserFails(uploaded_file)
  /\ session_state.last_resume_hash = file_hash(uploaded_file)
  /\ session_state.processed_resume = <<>>
  /\ ~display.extractor_called

(***************************************************************************)
(* The rounded score at its ends                                           *)
(***************************************************************************)
\* C26: for a non-empty job-description keyword set, the rounded score is
\* 100.0 exactly when no keyword is missing and 0.0 exactly when no keyword
\* is matched.
C26_ScoreEnds ==
  (Scored /\ JdSet # {}) =>
    /\ match_result.score = 10000 <=> match_result.missing = {}
    /\ match_result.score = 0 <=> match_result.matched = {}

(***************************************************************************)
(* The score as the resume grows                                           *)
(***************************************************************************)
\* The match result of the variant for the job-description keywords of the
\* state and the resume keywords of the state with those of the set ext
\* added.
ScoreWith(ext) ==
  IF variant = "backup"
  THEN calculate_match_score(resume_keywords \o SetToSeq(ext), jd_keywords)
  ELSE match_score(resume_keywords \cup ext, jd_keywords)

\* C27: for a fixed job-description set, a resume keyword set that contains
\* another scores at least as much, matches at least the same keywords and
\* misses at most the same keywords.
C27_MonotoneInResume ==
  Scored =>
    \A ext \in SUBSET ScoreKeywords :
      LET larger == ScoreWith(ext)
      IN  /\ match_result.score <= larger.score
          /\ match_result.matched \subseteq larger.matched
          /\ larger.missing \subseteq match_result.missing

\* A scored resume that matches one keyword and misses another: adding the
\* missed keyword raises the score.
C27_Witness ==
  /\ Scored
  /\ match_result.matched # {}
  /\ \E ext \in SUBSET ScoreKeywords :
       /\ ext \cap match_result.missing # {}
       /\ ScoreWith(ext).score > match_result.score

(***************************************************************************)
(* Dependencies of app.py and app_simple.py                                *)
(***************************************************************************)
SomeImportFails == ~(env.fitz_ok /\ env.spacy_ok /\ env.docx_ok)

\* C28: in app.py and app_simple.py, when one of the three libraries fails
\* to import, load_dependencies reports all three as unavailable: a PDF or
\* DOCX upload yields the empty text and the keywords come from the regex,
\* whichever of the libraries are installed.
C28_DependenciesAllOrNothing ==
  (variant \in {"app", "simple"} /\ SomeImportFails) =>
    /\ LET deps == load_dependencies(env)
       IN  ~deps.fitz /\ ~deps.spacy /\ ~deps.docx
    /\ (Extracted /\ uploaded_file.type \in {PDF, DOCX})
         => extraction.text = <<>> /\ ~extraction.raised
    /\ Normalised
         => /\ kw.path = "regex"
            /\ nlp = "None"
            /\ kw.keywords = regex_fallback(text, min_length)

\* Only the PDF parser is missing: a readable DOCX with text in it was
\* extracted to the empty string and a text was normalised by the regex.
C28_Witness ==
  /\ variant = "app"
  /\ ~env.fitz_ok /\ env.spacy_ok /\ env.docx_ok
  /\ Extracted
  /\ uploaded_file.type = DOCX
  /\ ~ParserFails(uploaded_file)
  /\ \E i \in DOMAIN uploaded_file.parts : uploaded_file.parts[i] # <<>>
  /\ extraction.text = <<>>
  /\ Normalised
  /\ kw.path = "regex"
  /\ kw.keywords # {}

(***************************************************************************)
(* The degraded normalisers of the variants                                *)
(***************************************************************************)
\* C29: with min_length 3 the regex fallback of extract_keywords_cached
\* (app.py, app_simple.py) and simple_text_processing
\* (app_simple_backup.py) return the same keywords for every text.
C29_DegradedNormalisersAgree ==
  (Normalised /\ min_length = MinKeywordLengthDefault) =>
    /\ kw.path = "regex"
    /\ kw.keywords = regex_fallback(text, MinKeywordLengthDefault)
    /\ kw.keywords = simple_text_processing(text)

(***************************************************************************)
(* The exports of app.py                                                   *)
(***************************************************************************)
CsvProduced == Rendered /\ variant = "app" /\ display.csv # None

====
